---- MODULE Spec2Model ----
(***************************************************************************)
(* The GraphQL scanner, lexer and parser of jmank88/gql                    *)
(* (package language/lexer and language/parser), as a state machine.       *)
(*                                                                         *)
(* A source text is a sequence of units.  A unit is a Unicode code point   *)
(* (a natural number), or BadByte, one byte that is not valid UTF-8.  A Go *)
(* string value (a token Value, a tail) is a sequence of units as well.    *)
(* Code points used below:                                                 *)
(*   9 TAB  10 LF  13 CR  32 SPACE  33 !  34 "  35 #  36 $  40 (  41 )     *)
(*   43 +  44 ,  45 -  46 .  47 /  48..57 0..9  58 :  61 =  64 @           *)
(*   65..90 A..Z  91 [  92 \  93 ]  95 _  97..122 a..z  123 {  124 |       *)
(*   125 }  233 e-acute (2 bytes)  65279 BOM  65533 U+FFFD (3 bytes)       *)
(***************************************************************************)
EXTENDS Integers, Sequences, FiniteSets, TLC

CR == 13
LF == 10
SPACE == 32
TAB == 9
BOM == 65279
COMMA == 44
US == 31

\* utf8.RuneError, the rune the decoders return for an invalid or empty input.
RuneError == 65533

\* One byte of the source that is not valid UTF-8.
BadByte == 0 - 1

\* Token kinds.
EOF == "EOF"
Bang == "!"
Dollar == "$"
ParenL == "("
ParenR == ")"
Spread == "..."
Colon == ":"
Equals == "="
At == "@"
BracketL == "["
BracketR == "]"
BraceL == "{"
Pipe == "|"
BraceR == "}"
Name == "Name"
IntKind == "Int"
Float == "Float"
String == "String"

\* The punctuator of a rune, or "" when the rune is not a punctuator.
runePunctuators(r) ==
  CASE r = 33 -> Bang
    [] r = 36 -> Dollar
    [] r = 40 -> ParenL
    [] r = 41 -> ParenR
    [] r = 58 -> Colon
    [] r = 61 -> Equals
    [] r = 64 -> At
    [] r = 91 -> BracketL
    [] r = 93 -> BracketR
    [] r = 123 -> BraceL
    [] r = 124 -> Pipe
    [] r = 125 -> BraceR
    [] OTHER -> ""

\* A zero-valued Token, as new(Token) or var t Token gives.
Token0 == [Kind |-> EOF, Start |-> 0, End |-> 0, Value |-> <<>>]

(***************************************************************************)
(* Errors.  All error values have one shape so that they compare.          *)
(***************************************************************************)
\* [type, Pos, msg, r, s, k]: r, s and k are the rune, the string and the
\* token kinds that the message formats.
NoErr ==
  [type |-> "nil", Pos |-> 0 - 1, msg |-> "", r |-> 0 - 1, s |-> <<>>,
   k |-> <<>>]
ioEOF ==
  [type |-> "io.EOF", Pos |-> 0 - 1, msg |-> "EOF", r |-> 0 - 1, s |-> <<>>,
   k |-> <<>>]
ioErr ==
  [type |-> "io", Pos |-> 0 - 1, msg |-> "read failed", r |-> 0 - 1,
   s |-> <<>>, k |-> <<>>]

\* &SyntaxError{pos, fmt.Errorf(msg, r / s)}
SyntaxError(pos, msg, r, s) ==
  [type |-> "SyntaxError", Pos |-> pos, msg |-> msg, r |-> r, s |-> s,
   k |-> <<>>]

\* errors.New(msg) / fmt.Errorf(msg, s): an error that is not a SyntaxError.
PlainError(msg, s) ==
  [type |-> "error", Pos |-> 0 - 1, msg |-> msg, r |-> 0 - 1, s |-> s,
   k |-> <<>>]

(***************************************************************************)
(* UTF-8.                                                                  *)
(***************************************************************************)
\* The number of bytes of a unit of the source.
Width(u) ==
  IF u = BadByte THEN 1
  ELSE IF u < 128 THEN 1
  ELSE IF u < 2048 THEN 2
  ELSE IF u < 65536 THEN 3
  ELSE 4

\* The number of bytes of a string: len(s).
RECURSIVE ByteLen(_)
ByteLen(s) == IF s = <<>> THEN 0 ELSE Width(Head(s)) + ByteLen(Tail(s))

\* The index of the unit that starts at byte offset target, 0 when there is
\* none (the offset is the end of the string).
RECURSIVE UnitAt(_, _, _, _)
UnitAt(s, k, off, target) ==
  IF k > Len(s) THEN 0
  ELSE IF off = target THEN k
  ELSE UnitAt(s, k + 1, off + Width(s[k]), target)

\* utf8.DecodeRuneInString(s[i:]): the rune and its width in bytes.
DecodeRuneInString(s, i) ==
  LET k == UnitAt(s, 1, 0, i) IN
  IF k = 0 THEN [r |-> RuneError, w |-> 0]
  ELSE IF s[k] = BadByte THEN [r |-> RuneError, w |-> 1]
  ELSE [r |-> s[k], w |-> Width(s[k])]

\* s[i:j] for byte offsets i <= j that fall on unit boundaries.
RECURSIVE ByteSlice(_, _, _, _, _)
ByteSlice(s, k, off, i, j) ==
  IF k > Len(s) \/ off >= j THEN <<>>
  ELSE IF off >= i THEN <<s[k]>> \o ByteSlice(s, k + 1, off + Width(s[k]), i, j)
  ELSE ByteSlice(s, k + 1, off + Width(s[k]), i, j)

\* What bytes.Buffer.WriteRune appends for the rune r: the rune itself, or
\* U+FFFD for a surrogate half or a value out of range.
WriteRune(r) ==
  IF r < 0 \/ r > 1114111 \/ (r >= 55296 /\ r <= 57343) THEN RuneError ELSE r

(***************************************************************************)
(* Scanners.                                                               *)
(***************************************************************************)
\* &stringScanner{source: s}
NewStringScanner(src) ==
  [impl |-> "string", source |-> src, last |-> 0, lastIndex |-> 0,
   lastWidth |-> 0, tailIndex |-> 0]

\* &bufferedScanner{source: bufio.NewReader(r)}; the reader delivers the
\* units of src and fails with an I/O error at read number failAt
\* (0-based; -1: never).
NewBufferedScanner(src, failAt) ==
  [impl |-> "buffered", source |-> src, pos |-> 0, failAt |-> failAt,
   last |-> 0, tailing |-> FALSE, tail |-> <<>>]

stringScanner_StartTail(s) == [s EXCEPT !.tailIndex = s.lastIndex]

stringScanner_Scan(s) ==
  IF s.lastIndex >= ByteLen(s.source) THEN [s |-> s, err |-> ioEOF]
  ELSE
    LET li == s.lastIndex + s.lastWidth
        d == DecodeRuneInString(s.source, li)
        s1 == [s EXCEPT !.lastIndex = li, !.last = d.r, !.lastWidth = d.w]
    IN [s |-> s1, err |-> IF d.r = RuneError THEN ioEOF ELSE NoErr]

stringScanner_EndTail(s) ==
  [s |-> s, tail |-> ByteSlice(s.source, 1, 0, s.tailIndex, s.lastIndex)]

bufferedScanner_StartTail(s) ==
  [s EXCEPT !.tailing = TRUE, !.tail = <<WriteRune(s.last)>>]

\* bufio.Reader.ReadRune: the next rune, (0, io.EOF) at the end of the
\* input, (0, err) when the underlying reader fails.
ReadRune(s) ==
  IF s.pos = s.failAt THEN [r |-> 0, err |-> ioErr, pos |-> s.pos]
  ELSE IF s.pos >= Len(s.source) THEN [r |-> 0, err |-> ioEOF, pos |-> s.pos]
  ELSE LET u == s.source[s.pos + 1] IN
       [r |-> IF u = BadByte THEN RuneError ELSE u, err |-> NoErr,
        pos |-> s.pos + 1]

bufferedScanner_Scan(s) ==
  LET rr == ReadRune(s)
      s1 == [s EXCEPT !.last = rr.r, !.pos = rr.pos]
  IN IF rr.err # NoErr THEN [s |-> s1, err |-> rr.err]
     ELSE IF s.tailing
       THEN [s |-> [s1 EXCEPT !.tail = Append(s.tail, WriteRune(rr.r))],
             err |-> NoErr]
       ELSE [s |-> s1, err |-> NoErr]

bufferedScanner_EndTail(s) ==
  [s |-> [s EXCEPT !.tailing = FALSE], tail |-> s.tail]

\* The Scanner interface.
Scan(s) ==
  IF s.impl = "string" THEN stringScanner_Scan(s) ELSE bufferedScanner_Scan(s)

Rune(s) == s.last

StartTail(s) ==
  IF s.impl = "string" THEN stringScanner_StartTail(s)
  ELSE bufferedScanner_StartTail(s)

EndTail(s) ==
  IF s.impl = "string" THEN stringScanner_EndTail(s)
  ELSE bufferedScanner_EndTail(s)

(***************************************************************************)
(* Lexer.  A Lexer is [scanner, err, lastIndex, eof].  The lexing methods  *)
(* return [l, t, err]: the lexer and the token *t after the call, and the  *)
(* error returned.                                                         *)
(***************************************************************************)
isDigit(l) == Rune(l.scanner) >= 48 /\ Rune(l.scanner) <= 57

isUpperLetter(l) == Rune(l.scanner) >= 65 /\ Rune(l.scanner) <= 90

isLowerLetter(l) == Rune(l.scanner) >= 97 /\ Rune(l.scanner) <= 122

\* Call(fn, a) applies the operation named fn to the arguments a: the calls
\* that the operations of the lexer and the parser make of one another.
RECURSIVE Call(_, _)

\* The lexer after l.advance(); the call returned true iff its err is NoErr.
advance(l) ==
  LET sc == Scan(l.scanner)
      atEOF == sc.err = ioEOF
      err == IF atEOF THEN NoErr ELSE sc.err
  IN [scanner |-> sc.s,
      err |-> err,
      eof |-> IF atEOF THEN TRUE ELSE l.eof,
      lastIndex |-> IF err = NoErr THEN l.lastIndex + 1 ELSE l.lastIndex]

\* NewLexer: [l, err]; l is meaningful only when err is NoErr.
NewLexer(s) ==
  LET l == Call("advance", <<[scanner |-> s, err |-> NoErr, lastIndex |-> 0 - 1,
                    eof |-> FALSE]>>)
  IN [l |-> l, err |-> l.err]

NewStringLexer(src) == Call("NewLexer", <<NewStringScanner(src)>>)

NewReaderLexer(src, failAt) == Call("NewLexer", <<NewBufferedScanner(src, failAt)>>)

\* The for loop of readName.
readNameLoop(l, t) ==
  LET l1 == Call("advance", <<l>>) IN
  IF l1.err # NoErr THEN [l |-> l1, t |-> t, err |-> l1.err]
  ELSE IF Rune(l1.scanner) = 95 \/ isDigit(l1) \/ isUpperLetter(l1)
          \/ isLowerLetter(l1)
    THEN Call("readNameLoop", <<l1, t>>)
    ELSE LET et == EndTail(l1.scanner) IN
         [l |-> [l1 EXCEPT !.scanner = et.s],
          t |-> [t EXCEPT !.End = l1.lastIndex - 1, !.Value = et.tail],
          err |-> NoErr]

readName(l, t) ==
  Call("readNameLoop", <<[l EXCEPT !.scanner = StartTail(l.scanner)],
               [t EXCEPT !.Kind = Name]>>)

\* The comment loop of advanceToNextToken: [l, ok, again]; again: the
\* comment ended and the outer loop continues.
advanceComment(l) ==
  LET l1 == Call("advance", <<l>>) IN
  IF l1.err # NoErr THEN [l |-> l1, ok |-> FALSE, again |-> FALSE]
  ELSE IF l1.eof THEN [l |-> l1, ok |-> TRUE, again |-> FALSE]
  ELSE IF Rune(l1.scanner) = TAB
          \/ (Rune(l1.scanner) > US /\ Rune(l1.scanner) # LF
              /\ Rune(l1.scanner) # CR)
    THEN Call("advanceComment", <<l1>>)
    ELSE [l |-> l1, ok |-> TRUE, again |-> TRUE]

\* [l, ok]
\* advanceToNextToken that scans once more at the end of the input.
advanceToNextToken_scanAtEOF(l) ==
  IF l.eof THEN [l |-> Call("advance", <<l>>), ok |-> TRUE]
  ELSE IF Rune(l.scanner) \in {BOM, TAB, SPACE, LF, CR, COMMA}
    THEN LET l1 == Call("advance", <<l>>) IN
         IF l1.err # NoErr THEN [l |-> l1, ok |-> FALSE]
         ELSE Call("advanceToNextToken", <<l1>>)
  ELSE IF Rune(l.scanner) = 35
    THEN LET c == Call("advanceComment", <<l>>) IN
         IF c.again THEN Call("advanceToNextToken", <<c.l>>)
         ELSE [l |-> c.l, ok |-> c.ok]
  ELSE [l |-> l, ok |-> TRUE]

advanceToNextToken(l) ==
  IF l.eof THEN [l |-> l, ok |-> TRUE]
  ELSE IF Rune(l.scanner) \in {BOM, TAB, SPACE, LF, CR, COMMA}
    THEN LET l1 == Call("advance", <<l>>) IN
         IF l1.err # NoErr THEN [l |-> l1, ok |-> FALSE]
         ELSE Call("advanceToNextToken", <<l1>>)
  ELSE IF Rune(l.scanner) = 35
    THEN LET c == Call("advanceComment", <<l>>) IN
         IF c.again THEN Call("advanceToNextToken", <<c.l>>)
         ELSE [l |-> c.l, ok |-> c.ok]
  ELSE [l |-> l, ok |-> TRUE]

\* [l, ok]
advanceDigits(l) ==
  LET l1 == Call("advance", <<l>>) IN
  IF l1.err # NoErr THEN [l |-> l1, ok |-> FALSE]
  ELSE IF l1.eof \/ ~isDigit(l1) THEN [l |-> l1, ok |-> TRUE]
  ELSE Call("advanceDigits", <<l1>>)

\* readNumber, the last statements: t.End, t.Value.
readNumberEnd(l, t) ==
  LET et == EndTail(l.scanner) IN
  [l |-> [l EXCEPT !.scanner = et.s],
   t |-> [t EXCEPT !.End = l.lastIndex - 1, !.Value = et.tail],
   err |-> NoErr]

\* readNumber, the exponent.
readNumberExponent(l, t) ==
  IF Rune(l.scanner) = 69 \/ Rune(l.scanner) = 101
  THEN LET t1 == [t EXCEPT !.Kind = Float]
           l1 == Call("advance", <<l>>)
       IN IF l1.err # NoErr THEN [l |-> l1, t |-> t1, err |-> l1.err]
          ELSE IF l1.eof THEN [l |-> l1, t |-> t1, err |-> NoErr]
          ELSE IF Rune(l1.scanner) = 43 \/ Rune(l1.scanner) = 45 \/ isDigit(l1)
            THEN LET d == Call("advanceDigits", <<l1>>) IN
                 IF ~d.ok THEN [l |-> d.l, t |-> t1, err |-> d.l.err]
                 ELSE Call("readNumberEnd", <<d.l, t1>>)
            ELSE [l |-> l1, t |-> t1,
                  err |-> SyntaxError(l1.lastIndex,
                            "unterminated number; expected sign or digit",
                            Rune(l1.scanner), <<>>)]
  ELSE Call("readNumberEnd", <<l, t>>)

\* readNumber, the decimal part.
readNumberDecimal(l, t) ==
  IF Rune(l.scanner) = 46
  THEN LET t1 == [t EXCEPT !.Kind = Float]
           d == Call("advanceDigits", <<l>>)
       IN IF ~d.ok THEN [l |-> d.l, t |-> t1, err |-> d.l.err]
          ELSE IF d.l.eof THEN [l |-> d.l, t |-> t1, err |-> NoErr]
          ELSE Call("readNumberExponent", <<d.l, t1>>)
  ELSE Call("readNumberExponent", <<l, t>>)

\* readNumber, the integer part.
readNumberInt(l, t) ==
  IF Rune(l.scanner) = 48
  THEN LET l1 == Call("advance", <<l>>) IN
       IF l1.err # NoErr THEN [l |-> l1, t |-> t, err |-> l1.err]
       ELSE IF l1.eof
         THEN [l |-> l1, t |-> t,
               err |-> SyntaxError(l1.lastIndex,
                         "invalid number; unexpected EOF following '0'",
                         0 - 1, <<>>)]
       ELSE IF isDigit(l1)
         THEN [l |-> l1, t |-> t,
               err |-> SyntaxError(l1.lastIndex,
                         "invalid number, unexpected digit after 0",
                         Rune(l1.scanner), <<>>)]
       ELSE Call("readNumberDecimal", <<l1, t>>)
  ELSE LET d == Call("advanceDigits", <<l>>) IN
       IF ~d.ok THEN [l |-> d.l, t |-> t, err |-> d.l.err]
       ELSE IF d.l.eof THEN Call("readNumberEnd", <<d.l, t>>)
       ELSE Call("readNumberDecimal", <<d.l, t>>)

readNumber(l, t) ==
  LET l0 == [l EXCEPT !.scanner = StartTail(l.scanner)]
      t0 == [t EXCEPT !.Kind = IntKind]
  IN IF Rune(l0.scanner) = 45
     THEN LET l1 == Call("advance", <<l0>>) IN
          IF l1.err # NoErr THEN [l |-> l1, t |-> t0, err |-> l1.err]
          ELSE IF l1.eof
            THEN [l |-> l1, t |-> t0,
                  err |-> SyntaxError(l1.lastIndex,
                            "invalid number; unexpected EOF following sign",
                            0 - 1, <<>>)]
          ELSE Call("readNumberInt", <<l1, t0>>)
     ELSE Call("readNumberInt", <<l0, t0>>)

\* The value of a hexadecimal digit, -1 for any other rune (encoding/hex).
fromHexChar(r) ==
  IF r >= 48 /\ r <= 57 THEN r - 48
  ELSE IF r >= 97 /\ r <= 102 THEN r - 97 + 10
  ELSE IF r >= 65 /\ r <= 70 THEN r - 65 + 10
  ELSE 0 - 1

\* hex.DecodeString(string(uRunes[:])) followed by binary.BigEndian.Uint16:
\* [ok, charCode].  A rune of more than one byte gives bytes that are no
\* hexadecimal digits.
hexDecode(uRunes) ==
  IF \A i \in 1..4 : fromHexChar(uRunes[i]) >= 0
  THEN [ok |-> TRUE,
        charCode |-> fromHexChar(uRunes[1]) * 4096 + fromHexChar(uRunes[2]) * 256
                     + fromHexChar(uRunes[3]) * 16 + fromHexChar(uRunes[4])]
  ELSE [ok |-> FALSE, charCode |-> 0]

\* The loop of readString over the four runes of a \u escape:
\* [l, uRunes, err].
readUnicode(l, uRunes) ==
  IF Len(uRunes) = 4 THEN [l |-> l, uRunes |-> uRunes, err |-> NoErr]
  ELSE LET l1 == Call("advance", <<l>>) IN
       IF l1.err # NoErr THEN [l |-> l1, uRunes |-> uRunes, err |-> l1.err]
       ELSE IF l1.eof
         THEN [l |-> l1, uRunes |-> uRunes,
               err |-> SyntaxError(l1.lastIndex,
                         "invalid unicode; unexpected EOF", 0 - 1, <<>>)]
       ELSE Call("readUnicode", <<l1, Append(uRunes, Rune(l1.scanner))>>)

\* The rune an escape letter denotes, -1 when it is no simple escape.
escapeRune(r) ==
  CASE r = 34 -> 34
    [] r = 47 -> 47
    [] r = 92 -> 92
    [] r = 98 -> 8
    [] r = 102 -> 12
    [] r = 110 -> 10
    [] r = 114 -> 13
    [] r = 116 -> 9
    [] OTHER -> 0 - 1

\* The for loop of readString; value is the buffer.
readStringLoop(l, t, value) ==
  LET l1 == Call("advance", <<l>>)
      r == Rune(l1.scanner)
  IN
  IF l1.err # NoErr THEN [l |-> l1, t |-> t, err |-> l1.err]
  ELSE IF l1.eof \/ r = LF \/ r = CR
    THEN [l |-> l1, t |-> t,
          err |-> SyntaxError(l1.lastIndex, "unterminated string", r, value)]
  ELSE IF r = 34
    THEN LET t1 == [t EXCEPT !.End = l1.lastIndex, !.Value = value]
             l2 == Call("advance", <<l1>>)
         IN [l |-> l2, t |-> t1, err |-> l2.err]
  ELSE IF r < SPACE /\ r # TAB
    THEN [l |-> l1, t |-> t,
          err |-> SyntaxError(l1.lastIndex,
                    "Invalid character within String", r, <<>>)]
  ELSE IF r # 92
    THEN Call("readStringLoop", <<l1, t, Append(value, WriteRune(r))>>)
  ELSE LET l2 == Call("advance", <<l1>>)
           e == Rune(l2.scanner)
       IN
       IF l2.err # NoErr THEN [l |-> l2, t |-> t, err |-> l2.err]
       ELSE IF escapeRune(e) >= 0
         THEN Call("readStringLoop", <<l2, t, Append(value, WriteRune(escapeRune(e)))>>)
       ELSE IF e = 117
         THEN LET u == Call("readUnicode", <<l2, <<>>>>)
                  h == hexDecode(u.uRunes)
              IN IF u.err # NoErr THEN [l |-> u.l, t |-> t, err |-> u.err]
                 ELSE IF ~h.ok
                   THEN [l |-> u.l, t |-> t,
                         err |-> SyntaxError(u.l.lastIndex,
                                   "encoding/hex: invalid byte", 0 - 1,
                                   u.uRunes)]
                 ELSE Call("readStringLoop", <<u.l, t,
                                     Append(value, WriteRune(h.charCode))>>)
       ELSE [l |-> l2, t |-> t,
             err |-> SyntaxError(l2.lastIndex,
                       "Invalid character escape sequence", e, <<>>)]

readString(l, t) == Call("readStringLoop", <<l, [t EXCEPT !.Kind = String], <<>>>>)

\* The closure expectDot of readSpread: [l, err].
expectDot(l, t) ==
  LET l1 == Call("advance", <<l>>) IN
  IF l1.err # NoErr THEN [l |-> l1, err |-> l1.err]
  ELSE IF l1.eof
    THEN [l |-> l1, err |-> SyntaxError(t.Start, "unexpected EOF", 0 - 1, <<>>)]
  ELSE IF Rune(l1.scanner) # 46
    THEN [l |-> l1,
          err |-> SyntaxError(t.Start, "unexpected character",
                              Rune(l1.scanner), <<>>)]
  ELSE [l |-> l1, err |-> NoErr]

readSpread(l, t) ==
  LET d1 == Call("expectDot", <<l, t>>) IN
  IF d1.err # NoErr THEN [l |-> d1.l, t |-> t, err |-> d1.err]
  ELSE LET d2 == Call("expectDot", <<d1.l, t>>) IN
  IF d2.err # NoErr THEN [l |-> d2.l, t |-> t, err |-> d2.err]
  ELSE LET t1 == [t EXCEPT !.Kind = Spread, !.End = t.Start + 3,
                           !.Value = <<46, 46, 46>>]
           l3 == Call("advance", <<d2.l>>)
       IN [l |-> l3, t |-> t1, err |-> l3.err]

\* Lexer.Lex(t): the next token is written into t.
Lex(l, t) ==
  LET a == Call("advanceToNextToken", <<l>>) IN
  IF ~a.ok THEN [l |-> a.l, t |-> t, err |-> a.l.err]
  ELSE
  LET l1 == a.l
      t1 == [t EXCEPT !.Start = l1.lastIndex]
      r == Rune(l1.scanner)
  IN
  IF l1.eof
    THEN [l |-> l1, t |-> [t1 EXCEPT !.Kind = EOF, !.End = t1.Start],
          err |-> NoErr]
  ELSE IF runePunctuators(r) # ""
    THEN LET t2 == [t1 EXCEPT !.Kind = runePunctuators(r),
                              !.End = t1.Start + 1, !.Value = <<r>>]
             l2 == Call("advance", <<l1>>)
         IN [l |-> l2, t |-> t2, err |-> l2.err]
  ELSE IF r = 95 \/ isUpperLetter(l1) \/ isLowerLetter(l1)
    THEN Call("readName", <<l1, t1>>)
  ELSE IF r = 45 \/ isDigit(l1)
    THEN Call("readNumber", <<l1, t1>>)
  ELSE IF r < SPACE /\ r # TAB /\ r # LF /\ r # CR
    THEN [l |-> l1, t |-> t1,
          err |-> SyntaxError(t1.Start, "invalid character", r, <<>>)]
  ELSE IF r = 34 THEN Call("readString", <<l1, t1>>)
  ELSE IF r = 46 THEN Call("readSpread", <<l1, t1>>)
  ELSE [l |-> l1, t |-> t1,
        err |-> SyntaxError(t1.Start, "unexpected character", r, <<>>)]

(***************************************************************************)
(* Parser.  A parser is [lexer, prevEnd, last, log]: the Lexer behind its  *)
(* lexerFunc, the End of the previous token, the last token (NilTok before *)
(* the first advance), and log, the history of the results of the calls of *)
(* lexerFunc.  The parsing methods return [p, err, v]: the parser after    *)
(* the call, the error and the value returned.                             *)
(***************************************************************************)
\* The string literal w of the parser's source as a sequence of runes.
Lit(w) ==
  CASE w = "query" -> <<113, 117, 101, 114, 121>>
    [] w = "mutation" -> <<109, 117, 116, 97, 116, 105, 111, 110>>
    [] w = "subscription" -> <<115, 117, 98, 115, 99, 114, 105, 112, 116, 105, 111, 110>>
    [] w = "fragment" -> <<102, 114, 97, 103, 109, 101, 110, 116>>
    [] w = "type" -> <<116, 121, 112, 101>>
    [] w = "interface" -> <<105, 110, 116, 101, 114, 102, 97, 99, 101>>
    [] w = "union" -> <<117, 110, 105, 111, 110>>
    [] w = "scalar" -> <<115, 99, 97, 108, 97, 114>>
    [] w = "enum" -> <<101, 110, 117, 109>>
    [] w = "input" -> <<105, 110, 112, 117, 116>>
    [] w = "extend" -> <<101, 120, 116, 101, 110, 100>>
    [] w = "on" -> <<111, 110>>
    [] w = "implements" -> <<105, 109, 112, 108, 101, 109, 101, 110, 116, 115>>
    [] w = "true" -> <<116, 114, 117, 101>>
    [] w = "false" -> <<102, 97, 108, 115, 101>>
    [] w = "null" -> <<110, 117, 108, 108>>
    [] w = "{" -> <<123>>
    [] w = "}" -> <<125>>
    [] w = "(" -> <<40>>
    [] w = ")" -> <<41>>
    [] w = "," -> <<44>>
    [] w = " " -> <<32>>
    [] w = ":" -> <<58>>
    [] w = "=" -> <<61>>
    [] w = "$" -> <<36>>
    [] w = "..." -> <<46, 46, 46>>
    [] w = "@" -> <<64>>
    [] w = "[" -> <<91>>
    [] w = "]" -> <<93>>
    [] w = "!" -> <<33>>
    [] w = "|" -> <<124>>
    [] w = "\n" -> <<10>>
    [] w = "\t" -> <<9>>
    [] w = "{}" -> <<123, 125>>
    [] w = "fragment " -> <<102, 114, 97, 103, 109, 101, 110, 116, 32>>
    [] w = " on " -> <<32, 111, 110, 32>>
    [] w = "type " -> <<116, 121, 112, 101, 32>>
    [] w = " implements" -> <<32, 105, 109, 112, 108, 101, 109, 101, 110, 116, 115>>
    [] w = "interface " -> <<105, 110, 116, 101, 114, 102, 97, 99, 101, 32>>
    [] w = "union " -> <<117, 110, 105, 111, 110, 32>>
    [] w = "scalar " -> <<115, 99, 97, 108, 97, 114, 32>>
    [] w = "enum " -> <<101, 110, 117, 109, 32>>
    [] w = "input " -> <<105, 110, 112, 117, 116, 32>>
    [] w = "extend " -> <<101, 120, 116, 101, 110, 100, 32>>

NilTok == [Kind |-> "nil", Start |-> 0, End |-> 0, Value |-> <<>>]

\* A nil pointer or interface value.
NilNode == [kind |-> "nil"]

Ret(p, err, v) == [p |-> p, err |-> err, v |-> v]

\* Zero values of the structs that other nodes embed.
Name0 == [kind |-> "Name", Start |-> 0, End |-> 0, Value |-> <<>>]
NamedType0 == [kind |-> "NamedType", Start |-> 0, End |-> 0, Value |-> <<>>]
SelectionSet0 ==
  [kind |-> "SelectionSet", Start |-> 0, End |-> 0, Selections |-> <<>>]
Variable0 == [kind |-> "Variable", Start |-> 0, End |-> 0, Name |-> Name0]

\* The parser at the start of a turn of one of its loops, or at a call of
\* parseRefType by itself: turns holds, for each, the number of calls made
\* of the lexer function so far.
turn(p) == [p EXCEPT !.turns = Append(@, Len(p.log))]

\* parser.advance: [p, err].
\* advance without the update of prevEnd.
parser_advance_keepPrevEnd(p) ==
  LET x == Call("Lex", <<p.lexer, Token0>>) IN
  [p |-> [lexer |-> x.l,
          prevEnd |-> p.prevEnd,
          last |-> x.t,
          log |-> Append(p.log, [t |-> x.t, err |-> x.err]),
          calls |-> p.calls,
          turns |-> p.turns],
   err |-> x.err]

\* advance that calls the lexer function a second time and keeps its token.
parser_advance_twice(p) ==
  LET x0 == Call("Lex", <<p.lexer, Token0>>)
      x == Call("Lex", <<x0.l, Token0>>)
  IN
  [p |-> [lexer |-> x.l,
          prevEnd |-> IF p.last # NilTok THEN p.last.End ELSE p.prevEnd,
          last |-> x.t,
          log |-> Append(Append(p.log, [t |-> x0.t, err |-> x0.err]),
                         [t |-> x.t, err |-> x.err]),
          calls |-> p.calls,
          turns |-> p.turns],
   err |-> x.err]

parser_advance(p) ==
  LET x == Call("Lex", <<p.lexer, Token0>>) IN
  [p |-> [lexer |-> x.l,
          prevEnd |-> IF p.last # NilTok THEN p.last.End ELSE p.prevEnd,
          last |-> x.t,
          log |-> Append(p.log, [t |-> x.t, err |-> x.err]),
          calls |-> p.calls,
          turns |-> p.turns],
   err |-> x.err]

\* newParser(l.Lex): [p, err].
newParser(l) ==
  Call("parser_advance", <<[lexer |-> l, prevEnd |-> 0, last |-> NilTok, log |-> <<>>,
                            calls |-> 0, turns |-> <<>>]>>)

\* skip that advances whatever the token is.
skip_always(p, k) ==
  LET a == Call("parser_advance", <<p>>) IN
  [p |-> a.p, err |-> a.err, match |-> p.last.Kind = k]

\* [p, err, match]
skip(p, k) ==
  IF p.last.Kind = k
  THEN LET a == Call("parser_advance", <<p>>) IN [p |-> a.p, err |-> a.err, match |-> TRUE]
  ELSE [p |-> p, err |-> NoErr, match |-> FALSE]

\* [p, err, v]: v is the token.
expect(p, k) ==
  LET t == p.last IN
  IF t.Kind = k
  THEN LET a == Call("parser_advance", <<p>>) IN
       IF a.err # NoErr THEN Ret(a.p, a.err, NilTok) ELSE Ret(a.p, NoErr, t)
  ELSE Ret(p, [SyntaxError(t.Start, "expected a token but found", 0 - 1,
                           <<>>) EXCEPT !.k = <<k, t.Kind>>], NilTok)

expectKeyword(p, value) ==
  LET t == p.last IN
  IF t.Kind = Name /\ t.Value = value
  THEN LET a == Call("parser_advance", <<p>>) IN
       IF a.err # NoErr THEN Ret(a.p, a.err, NilTok) ELSE Ret(a.p, NoErr, t)
  ELSE Ret(p, [SyntaxError(t.Start, "expected keyword name but got", 0 - 1,
                           value \o t.Value) EXCEPT !.k = <<t.Kind>>], NilTok)

\* parseName(name): v is *name after the call, given its value before.
parseName(p, name) ==
  LET e == Call("expect", <<p, Name>>) IN
  IF e.err # NoErr THEN Ret(e.p, e.err, name)
  ELSE Ret(e.p, NoErr,
           [name EXCEPT !.Value = e.v.Value, !.Start = e.v.Start,
                        !.End = e.v.End])

\* parseNamedType(nt); nt = NilNode stands for a nil argument.
parseNamedType(p, nt) ==
  LET n == Call("parseName", <<p, IF nt = NilNode THEN NamedType0 ELSE nt>>) IN
  IF n.err # NoErr THEN Ret(n.p, n.err, NilNode) ELSE n

\* parseVariable(v); v = NilNode stands for a nil argument.
parseVariable(p, v) ==
  LET v0 == [(IF v = NilNode THEN Variable0 ELSE v) EXCEPT
               !.Start = p.last.Start]
      e == Call("expect", <<p, Dollar>>)
  IN IF e.err # NoErr THEN Ret(e.p, e.err, NilNode)
     ELSE LET n == Call("parseName", <<e.p, v0.Name>>) IN
          IF n.err # NoErr THEN Ret(n.p, n.err, NilNode)
          ELSE Ret(n.p, NoErr, [v0 EXCEPT !.Name = n.v, !.End = n.p.prevEnd])

\* parseFragmentName(name)
parseFragmentName(p, name) ==
  IF p.last.Value = Lit("on")
  THEN Ret(p, SyntaxError(p.last.Start, "UnexpectedOn", 0 - 1, <<>>), name)
  ELSE Call("parseName", <<p, name>>)

parseRefType(p) ==
  LET start == p.last.Start
      s1 == Call("skip", <<p, BracketL>>)
      \* The type before an optional '!': [p, err, v].
      t == IF s1.err # NoErr THEN Ret(s1.p, s1.err, NilNode)
           ELSE IF s1.match
             THEN LET el == Call("parseRefType", <<turn(s1.p)>>) IN
                  IF el.err # NoErr THEN Ret(el.p, el.err, NilNode)
                  ELSE LET e == Call("expect", <<el.p, BracketR>>) IN
                       IF e.err # NoErr THEN Ret(e.p, e.err, NilNode)
                       ELSE Ret(e.p, NoErr,
                                [kind |-> "ListType", Start |-> start,
                                 End |-> e.p.prevEnd, RefType |-> el.v])
           ELSE Call("parseNamedType", <<s1.p, NilNode>>)
  IN IF t.err # NoErr THEN Ret(t.p, t.err, NilNode)
     ELSE LET s2 == Call("skip", <<t.p, Bang>>) IN
          IF s2.err # NoErr THEN Ret(s2.p, s2.err, NilNode)
          ELSE IF s2.match
            THEN Ret(s2.p, NoErr,
                     [kind |-> "NonNullType", Start |-> start,
                      End |-> s2.p.prevEnd, RefType |-> t.v])
          ELSE Ret(s2.p, NoErr, t.v)


\* any(open, parseFn, close): v is the list that the closure parseFn appends
\* to, starting from acc.  fn names the closure.
anyLoop(p, fn, close, acc) ==
  LET s == Call("skip", <<p, close>>) IN
  IF s.match \/ s.err # NoErr THEN Ret(s.p, s.err, acc)
  ELSE LET r == Call("parseFn", <<fn, s.p>>) IN
       IF r.err # NoErr THEN Ret(r.p, r.err, acc)
       ELSE Call("anyLoop", <<r.p, fn, close, Append(acc, r.v)>>)

any(p, open, fn, close, acc) ==
  LET e == Call("expect", <<p, open>>) IN
  IF e.err # NoErr THEN Ret(e.p, e.err, acc)
  ELSE Call("anyLoop", <<e.p, fn, close, acc>>)

manyLoop(p, fn, close, acc) ==
  LET r == Call("parseFn", <<fn, p>>) IN
  IF r.err # NoErr THEN Ret(r.p, r.err, acc)
  ELSE LET s == Call("skip", <<r.p, close>>) IN
       IF s.match \/ s.err # NoErr THEN Ret(s.p, s.err, Append(acc, r.v))
       ELSE Call("manyLoop", <<s.p, fn, close, Append(acc, r.v)>>)

\* many that leaves the opening token to its first element.
many_keepOpen(p, open, fn, close, acc) ==
  IF p.last.Kind # open
  THEN Ret(p, [SyntaxError(p.last.Start, "expected a token but found", 0 - 1,
                           <<>>) EXCEPT !.k = <<open, p.last.Kind>>], acc)
  ELSE Call("manyLoop", <<p, fn, close, acc>>)

\* many with the loop of any.
many_closeFirst(p, open, fn, close, acc) ==
  LET e == Call("expect", <<p, open>>) IN
  IF e.err # NoErr THEN Ret(e.p, e.err, acc)
  ELSE Call("anyLoop", <<e.p, fn, close, acc>>)

many(p, open, fn, close, acc) ==
  LET e == Call("expect", <<p, open>>) IN
  IF e.err # NoErr THEN Ret(e.p, e.err, acc)
  ELSE Call("manyLoop", <<e.p, fn, close, acc>>)

\* parseList that parses its elements as values that need not be constant.
parseList_anyValue(p, isConst) ==
  LET start == p.last.Start
      a == Call("any", <<p, BracketL, "Value", BracketR, <<>>>>)
  IN IF a.err # NoErr THEN Ret(a.p, a.err, NilNode)
     ELSE Ret(a.p, NoErr, [kind |-> "List", Start |-> start,
                           End |-> a.p.prevEnd, Values |-> a.v])

parseList(p, isConst) ==
  LET start == p.last.Start
      a == Call("any", <<p, BracketL, IF isConst THEN "ConstValue" ELSE "Value",
               BracketR, <<>>>>)
  IN IF a.err # NoErr THEN Ret(a.p, a.err, NilNode)
     ELSE Ret(a.p, NoErr, [kind |-> "List", Start |-> start,
                           End |-> a.p.prevEnd, Values |-> a.v])

parseObject(p, isConst) ==
  LET start == p.last.Start
      a == Call("any", <<p, BraceL, IF isConst THEN "ConstObjectField" ELSE "ObjectField",
               BraceR, <<>>>>)
  IN IF a.err # NoErr THEN Ret(a.p, a.err, NilNode)
     ELSE Ret(a.p, NoErr, [kind |-> "Object", Start |-> start,
                           End |-> a.p.prevEnd, Fields |-> a.v])

\* parseObjectField(&f, isConst) for a zero-valued f.
parseObjectField(p, isConst) ==
  LET start == p.last.Start
      n == Call("parseName", <<p, Name0>>)
  IN IF n.err # NoErr THEN Ret(n.p, n.err, NilNode)
     ELSE LET e == Call("expect", <<n.p, Colon>>) IN
     IF e.err # NoErr THEN Ret(e.p, e.err, NilNode)
     ELSE LET v == Call("parseValueLiteral", <<e.p, isConst>>) IN
     IF v.err # NoErr THEN Ret(v.p, v.err, NilNode)
     ELSE Ret(v.p, NoErr, [kind |-> "ObjectField", Start |-> start,
                           End |-> v.p.prevEnd, Name |-> n.v, Value |-> v.v])

\* parseValueLiteral that takes null for an enum value.
parseValueLiteral_nullEnum(p, isConst) ==
  LET token == p.last
      fallthrough ==
        Ret(p, SyntaxError(p.last.Start, "unexpected kind", 0 - 1,
                           p.last.Value), NilNode)
      \* advance, then the literal node of the given kind.
      literal(kind, value) ==
        LET a == Call("parser_advance", <<p>>) IN
        IF a.err # NoErr THEN Ret(a.p, a.err, NilNode)
        ELSE Ret(a.p, NoErr, [kind |-> kind, Start |-> token.Start,
                              End |-> a.p.prevEnd, Value |-> value])
  IN CASE token.Kind = BracketL -> Call("parseList", <<p, isConst>>)
       [] token.Kind = BraceL -> Call("parseObject", <<p, isConst>>)
       [] token.Kind = IntKind -> literal("Int", token.Value)
       [] token.Kind = Float -> literal("Float", token.Value)
       [] token.Kind = String -> literal("String", token.Value)
       [] token.Kind = Name ->
            IF token.Value = Lit("true") \/ token.Value = Lit("false")
            THEN literal("Boolean", token.Value = Lit("true"))
            ELSE literal("Enum", token.Value)
       [] token.Kind = Dollar ->
            IF ~isConst THEN Call("parseVariable", <<p, NilNode>>)
            ELSE Ret(p, PlainError("variable may not be constant", <<>>),
                     NilNode)
       [] OTHER -> fallthrough

parseValueLiteral(p, isConst) ==
  LET token == p.last
      fallthrough ==
        Ret(p, SyntaxError(p.last.Start, "unexpected kind", 0 - 1,
                           p.last.Value), NilNode)
      \* advance, then the literal node of the given kind.
      literal(kind, value) ==
        LET a == Call("parser_advance", <<p>>) IN
        IF a.err # NoErr THEN Ret(a.p, a.err, NilNode)
        ELSE Ret(a.p, NoErr, [kind |-> kind, Start |-> token.Start,
                              End |-> a.p.prevEnd, Value |-> value])
  IN CASE token.Kind = BracketL -> Call("parseList", <<p, isConst>>)
       [] token.Kind = BraceL -> Call("parseObject", <<p, isConst>>)
       [] token.Kind = IntKind -> literal("Int", token.Value)
       [] token.Kind = Float -> literal("Float", token.Value)
       [] token.Kind = String -> literal("String", token.Value)
       [] token.Kind = Name ->
            IF token.Value = Lit("true") \/ token.Value = Lit("false")
            THEN literal("Boolean", token.Value = Lit("true"))
            ELSE IF token.Value # Lit("null")
            THEN literal("Enum", token.Value)
            ELSE fallthrough
       [] token.Kind = Dollar ->
            IF ~isConst THEN Call("parseVariable", <<p, NilNode>>)
            ELSE Ret(p, PlainError("variable may not be constant", <<>>),
                     NilNode)
       [] OTHER -> fallthrough

parseArgument(p) ==
  LET a0 == [kind |-> "Argument", Start |-> p.last.Start, End |-> 0,
             Name |-> Name0, Value |-> NilNode]
      n == Call("parseName", <<p, Name0>>)
      a1 == [a0 EXCEPT !.Name = n.v]
  IN IF n.err # NoErr THEN Ret(n.p, n.err, a1)
     ELSE LET e == Call("expect", <<n.p, Colon>>) IN
     IF e.err # NoErr THEN Ret(e.p, e.err, a1)
     ELSE LET v == Call("parseValueLiteral", <<e.p, FALSE>>) IN
     IF v.err # NoErr THEN Ret(v.p, v.err, NilNode)
     ELSE Ret(v.p, NoErr, [a1 EXCEPT !.Value = v.v, !.End = v.p.prevEnd])

parseArguments(p) ==
  IF p.last.Kind = ParenL
  THEN Call("many", <<p, ParenL, "Argument", ParenR, <<>>>>)
  ELSE Ret(p, NoErr, <<>>)

parseDirective(p) ==
  LET start == p.last.Start
      e == Call("expect", <<p, At>>)
  IN IF e.err # NoErr THEN Ret(e.p, e.err, NilNode)
     ELSE LET n == Call("parseName", <<e.p, Name0>>) IN
     IF n.err # NoErr THEN Ret(n.p, n.err, NilNode)
     ELSE LET a == Call("parseArguments", <<n.p>>) IN
     IF a.err # NoErr THEN Ret(a.p, a.err, NilNode)
     ELSE Ret(a.p, NoErr, [kind |-> "Directive", Start |-> start,
                           End |-> a.p.prevEnd, Name |-> n.v,
                           Arguments |-> a.v])

\* The for loop of parseDirectives; ds is the slice so far.
parseDirectivesLoop(p, ds) ==
  IF p.last.Kind = At
  THEN LET d == Call("parseDirective", <<turn(p)>>) IN
       IF d.err # NoErr THEN Ret(d.p, d.err, <<>>)
       ELSE Call("parseDirectivesLoop", <<d.p, Append(ds, d.v)>>)
  ELSE Ret(p, NoErr, ds)

parseDirectives(p) == Call("parseDirectivesLoop", <<p, <<>>>>)

parseVarDef(p) ==
  LET start == p.last.Start
      v == Call("parseVariable", <<p, Variable0>>)
  IN IF v.err # NoErr THEN Ret(v.p, v.err, NilNode)
     ELSE LET e == Call("expect", <<v.p, Colon>>) IN
     IF e.err # NoErr THEN Ret(e.p, e.err, NilNode)
     ELSE LET t == Call("parseRefType", <<e.p>>) IN
     IF t.err # NoErr THEN Ret(t.p, t.err, NilNode)
     ELSE LET s == Call("skip", <<t.p, Equals>>) IN
     IF s.err # NoErr THEN Ret(s.p, s.err, NilNode)
     ELSE LET d == IF s.match THEN Call("parseValueLiteral", <<s.p, TRUE>>)
                   ELSE Ret(s.p, NoErr, NilNode)
     IN IF d.err # NoErr THEN Ret(d.p, d.err, NilNode)
        ELSE Ret(d.p, NoErr, [kind |-> "VarDef", Start |-> start,
                              End |-> d.p.prevEnd, Variable |-> v.v,
                              RefType |-> t.v, DefaultValue |-> d.v])

parseVarDefs(p) ==
  IF p.last.Kind = ParenL
  THEN Call("many", <<p, ParenL, "VarDef", ParenR, <<>>>>)
  ELSE Ret(p, NoErr, <<>>)

\* parseField(nil)
\* parseField with f.Start taken at the field name instead of the first token.
parseField_startAtName(p) ==
  LET start == p.last.Start
      n1 == Call("parseName", <<p, Name0>>)
  IN IF n1.err # NoErr THEN Ret(n1.p, n1.err, NilNode)
     ELSE LET s == Call("skip", <<n1.p, Colon>>) IN
     IF s.err # NoErr THEN Ret(s.p, s.err, NilNode)
     ELSE LET n2 == IF s.match THEN Call("parseName", <<s.p, Name0>>)
                    ELSE Ret(s.p, NoErr, n1.v)
     IN IF n2.err # NoErr THEN Ret(n2.p, n2.err, NilNode)
     ELSE LET a == Call("parseArguments", <<n2.p>>) IN
     IF a.err # NoErr THEN Ret(a.p, a.err, NilNode)
     ELSE LET d == Call("parseDirectives", <<a.p>>) IN
     IF d.err # NoErr THEN Ret(d.p, d.err, NilNode)
     ELSE LET ss == IF d.p.last.Kind = BraceL
                    THEN Call("parseSelectionSet", <<d.p, SelectionSet0>>)
                    ELSE Ret(d.p, NoErr, SelectionSet0)
     IN IF ss.err # NoErr THEN Ret(ss.p, ss.err, NilNode)
        ELSE Ret(ss.p, NoErr,
                 [kind |-> "Field", Start |-> n2.v.Start, End |-> ss.p.prevEnd,
                  Alias |-> IF s.match THEN n1.v ELSE Name0,
                  Name |-> n2.v, Arguments |-> a.v, Directives |-> d.v,
                  SelectionSet |-> ss.v])

\* parseField with the first name kept as the alias whether or not a colon
\* follows.
parseField_aliasAlways(p) ==
  LET start == p.last.Start
      n1 == Call("parseName", <<p, Name0>>)
  IN IF n1.err # NoErr THEN Ret(n1.p, n1.err, NilNode)
     ELSE LET s == Call("skip", <<n1.p, Colon>>) IN
     IF s.err # NoErr THEN Ret(s.p, s.err, NilNode)
     ELSE LET n2 == IF s.match THEN Call("parseName", <<s.p, Name0>>)
                    ELSE Ret(s.p, NoErr, n1.v)
     IN IF n2.err # NoErr THEN Ret(n2.p, n2.err, NilNode)
     ELSE LET a == Call("parseArguments", <<n2.p>>) IN
     IF a.err # NoErr THEN Ret(a.p, a.err, NilNode)
     ELSE LET d == Call("parseDirectives", <<a.p>>) IN
     IF d.err # NoErr THEN Ret(d.p, d.err, NilNode)
     ELSE LET ss == IF d.p.last.Kind = BraceL
                    THEN Call("parseSelectionSet", <<d.p, SelectionSet0>>)
                    ELSE Ret(d.p, NoErr, SelectionSet0)
     IN IF ss.err # NoErr THEN Ret(ss.p, ss.err, NilNode)
        ELSE Ret(ss.p, NoErr,
                 [kind |-> "Field", Start |-> start, End |-> ss.p.prevEnd,
                  Alias |-> n1.v,
                  Name |-> n2.v, Arguments |-> a.v, Directives |-> d.v,
                  SelectionSet |-> ss.v])

parseField(p) ==
  LET start == p.last.Start
      n1 == Call("parseName", <<p, Name0>>)
  IN IF n1.err # NoErr THEN Ret(n1.p, n1.err, NilNode)
     ELSE LET s == Call("skip", <<n1.p, Colon>>) IN
     IF s.err # NoErr THEN Ret(s.p, s.err, NilNode)
     ELSE LET n2 == IF s.match THEN Call("parseName", <<s.p, Name0>>)
                    ELSE Ret(s.p, NoErr, n1.v)
     IN IF n2.err # NoErr THEN Ret(n2.p, n2.err, NilNode)
     ELSE LET a == Call("parseArguments", <<n2.p>>) IN
     IF a.err # NoErr THEN Ret(a.p, a.err, NilNode)
     ELSE LET d == Call("parseDirectives", <<a.p>>) IN
     IF d.err # NoErr THEN Ret(d.p, d.err, NilNode)
     ELSE LET ss == IF d.p.last.Kind = BraceL
                    THEN Call("parseSelectionSet", <<d.p, SelectionSet0>>)
                    ELSE Ret(d.p, NoErr, SelectionSet0)
     IN IF ss.err # NoErr THEN Ret(ss.p, ss.err, NilNode)
        ELSE Ret(ss.p, NoErr,
                 [kind |-> "Field", Start |-> start, End |-> ss.p.prevEnd,
                  Alias |-> IF s.match THEN n1.v ELSE Name0,
                  Name |-> n2.v, Arguments |-> a.v, Directives |-> d.v,
                  SelectionSet |-> ss.v])

parseFragment(p) ==
  LET start == p.last.Start
      e == Call("expect", <<p, Spread>>)
  IN IF e.err # NoErr THEN Ret(e.p, e.err, NilNode)
     ELSE IF e.p.last.Kind = Name /\ e.p.last.Value # Lit("on")
     THEN LET n == Call("parseFragmentName", <<e.p, Name0>>) IN
          IF n.err # NoErr THEN Ret(n.p, n.err, NilNode)
          ELSE LET d == Call("parseDirectives", <<n.p>>) IN
          IF d.err # NoErr THEN Ret(d.p, d.err, NilNode)
          ELSE Ret(d.p, NoErr,
                   [kind |-> "FragmentSpread", Start |-> start,
                    End |-> d.p.prevEnd, Name |-> n.v, Directives |-> d.v])
     ELSE LET \* The optional type condition: [p, err, v].
              tc == IF e.p.last.Value = Lit("on")
                    THEN LET a == Call("parser_advance", <<e.p>>) IN
                         IF a.err # NoErr THEN Ret(a.p, a.err, NilNode)
                         ELSE Call("parseNamedType", <<a.p, NamedType0>>)
                    ELSE Ret(e.p, NoErr, NamedType0)
          IN IF tc.err # NoErr THEN Ret(tc.p, tc.err, NilNode)
          ELSE LET d == Call("parseDirectives", <<tc.p>>) IN
          IF d.err # NoErr THEN Ret(d.p, d.err, NilNode)
          ELSE LET ss == Call("parseSelectionSet", <<d.p, SelectionSet0>>) IN
          IF ss.err # NoErr THEN Ret(ss.p, ss.err, NilNode)
          ELSE Ret(ss.p, NoErr,
                   [kind |-> "InlineFragment", Start |-> start,
                    End |-> ss.p.prevEnd, NamedType |-> tc.v,
                    Directives |-> d.v, SelectionSet |-> ss.v])

parseSelection(p) ==
  IF p.last.Kind = Spread THEN Call("parseFragment", <<p>>) ELSE Call("parseField", <<p>>)

\* parseSelectionSet(s): v is *s after the call.
parseSelectionSet(p, s) ==
  LET s1 == [s EXCEPT !.Start = p.last.Start]
      m == Call("many", <<p, BraceL, "Selection", BraceR, s1.Selections>>)
  IN IF m.err # NoErr THEN Ret(m.p, m.err, [s1 EXCEPT !.Selections = m.v])
     ELSE Ret(m.p, NoErr,
              [s1 EXCEPT !.Selections = m.v, !.End = m.p.prevEnd])

\* parseInputValueDef(&def).  The callers share one def between the calls;
\* a successful call assigns every field of it.
parseInputValueDef(p) ==
  LET start == p.last.Start
      n == Call("parseName", <<p, Name0>>)
  IN IF n.err # NoErr THEN Ret(n.p, n.err, NilNode)
     ELSE LET e == Call("expect", <<n.p, Colon>>) IN
     IF e.err # NoErr THEN Ret(e.p, e.err, NilNode)
     ELSE LET t == Call("parseRefType", <<e.p>>) IN
     IF t.err # NoErr THEN Ret(t.p, t.err, NilNode)
     ELSE LET s == Call("skip", <<t.p, Equals>>) IN
     IF s.err # NoErr THEN Ret(s.p, s.err, NilNode)
     ELSE LET d == IF s.match THEN Call("parseValueLiteral", <<s.p, TRUE>>)
                   ELSE Ret(s.p, NoErr, NilNode)
     IN IF d.err # NoErr THEN Ret(d.p, d.err, NilNode)
        ELSE Ret(d.p, NoErr, [kind |-> "InputValueDef", Start |-> start,
                              End |-> d.p.prevEnd, Name |-> n.v,
                              RefType |-> t.v, DefaultValue |-> d.v])

parseArgumentsDef(p) ==
  IF p.last.Kind # ParenL THEN Ret(p, NoErr, <<>>)
  ELSE Call("many", <<p, ParenL, "InputValueDef", ParenR, <<>>>>)

\* parseFieldDef(&f) for a zero-valued f.
parseFieldDef(p) ==
  LET start == p.last.Start
      n == Call("parseName", <<p, Name0>>)
  IN IF n.err # NoErr THEN Ret(n.p, n.err, NilNode)
     ELSE LET a == Call("parseArgumentsDef", <<n.p>>) IN
     IF a.err # NoErr THEN Ret(a.p, a.err, NilNode)
     ELSE LET e == Call("expect", <<a.p, Colon>>) IN
     IF e.err # NoErr THEN Ret(e.p, e.err, NilNode)
     ELSE LET t == Call("parseRefType", <<e.p>>) IN
     IF t.err # NoErr THEN Ret(t.p, t.err, NilNode)
     ELSE Ret(t.p, NoErr, [kind |-> "FieldDef", Start |-> start,
                           End |-> t.p.prevEnd, Name |-> n.v,
                           Arguments |-> a.v, RefType |-> t.v])

\* parseEnumValueDef(&v) for a zero-valued v.
parseEnumValueDef(p) ==
  Call("parseName", <<p, [Name0 EXCEPT !.kind = "EnumValueDef"]>>)

\* The closures that any and many are called with.
parseFn(fn, p0) ==
  LET p == turn([p0 EXCEPT !.calls = @ + 1]) IN
  CASE fn = "VarDef" -> Call("parseVarDef", <<p>>)
    [] fn = "Selection" -> Call("parseSelection", <<p>>)
    [] fn = "Argument" -> Call("parseArgument", <<p>>)
    [] fn = "Value" -> Call("parseValueLiteral", <<p, FALSE>>)
    [] fn = "ConstValue" -> Call("parseValueLiteral", <<p, TRUE>>)
    [] fn = "ObjectField" -> Call("parseObjectField", <<p, FALSE>>)
    [] fn = "ConstObjectField" -> Call("parseObjectField", <<p, TRUE>>)
    [] fn = "FieldDef" -> Call("parseFieldDef", <<p>>)
    [] fn = "InputValueDef" -> Call("parseInputValueDef", <<p>>)
    [] fn = "EnumValueDef" -> Call("parseEnumValueDef", <<p>>)

\* The for loop of parseImplementsInterfaces.
parseImplementsLoop(p, types) ==
  IF p.last.Kind = BraceL \/ p.last.Kind = EOF THEN Ret(p, NoErr, types)
  ELSE LET n == Call("parseNamedType", <<turn(p), NamedType0>>) IN
       IF n.err # NoErr THEN Ret(n.p, n.err, <<>>)
       ELSE Call("parseImplementsLoop", <<n.p, Append(types, n.v)>>)

parseImplementsInterfaces(p) ==
  IF p.last.Value = Lit("implements")
  THEN LET a == Call("parser_advance", <<p>>) IN
       IF a.err # NoErr THEN Ret(a.p, a.err, <<>>)
       ELSE LET n == Call("parseNamedType", <<a.p, NamedType0>>) IN
       IF n.err # NoErr THEN Ret(n.p, n.err, <<>>)
       ELSE Call("parseImplementsLoop", <<n.p, <<n.v>>>>)
  ELSE Ret(p, NoErr, <<>>)

\* parseObjTypeDef(o); o = NilNode stands for a nil argument.
parseObjTypeDef(p, o) ==
  LET o0 == IF o = NilNode
            THEN [kind |-> "ObjTypeDef", Start |-> p.last.Start, End |-> 0,
                  Name |-> Name0, Interfaces |-> <<>>, FieldDefs |-> <<>>]
            ELSE o
      k == Call("expectKeyword", <<p, Lit("type")>>)
  IN IF k.err # NoErr THEN Ret(k.p, k.err, NilNode)
     ELSE LET n == Call("parseName", <<k.p, o0.Name>>) IN
     IF n.err # NoErr THEN Ret(n.p, n.err, NilNode)
     ELSE LET i == Call("parseImplementsInterfaces", <<n.p>>) IN
     IF i.err # NoErr THEN Ret(i.p, i.err, NilNode)
     ELSE LET f == Call("any", <<i.p, BraceL, "FieldDef", BraceR, o0.FieldDefs>>) IN
     IF f.err # NoErr THEN Ret(f.p, f.err, NilNode)
     ELSE Ret(f.p, NoErr, [o0 EXCEPT !.Name = n.v, !.Interfaces = i.v,
                                     !.FieldDefs = f.v, !.End = f.p.prevEnd])

parseInterfaceTypeDef(p) ==
  LET start == p.last.Start
      k == Call("expectKeyword", <<p, Lit("interface")>>)
  IN IF k.err # NoErr THEN Ret(k.p, k.err, NilNode)
     ELSE LET n == Call("parseName", <<k.p, Name0>>) IN
     IF n.err # NoErr THEN Ret(n.p, n.err, NilNode)
     ELSE LET f == Call("any", <<n.p, BraceL, "FieldDef", BraceR, <<>>>>) IN
     IF f.err # NoErr THEN Ret(f.p, f.err, NilNode)
     ELSE Ret(f.p, NoErr, [kind |-> "InterfaceTypeDef", Start |-> start,
                           End |-> f.p.prevEnd, Name |-> n.v,
                           FieldDefs |-> f.v])

\* The for loop of parseUnionMembers.
parseUnionMembersLoop(p, members) ==
  LET n == Call("parseNamedType", <<turn(p), NamedType0>>) IN
  IF n.err # NoErr THEN Ret(n.p, n.err, <<>>)
  ELSE LET s == Call("skip", <<n.p, Pipe>>) IN
       IF s.match /\ s.err = NoErr
       THEN Call("parseUnionMembersLoop", <<s.p, Append(members, n.v)>>)
       ELSE Ret(s.p, s.err, Append(members, n.v))

parseUnionMembers(p) == Call("parseUnionMembersLoop", <<p, <<>>>>)

parseUnionTypeDef(p) ==
  LET start == p.last.Start
      k == Call("expectKeyword", <<p, Lit("union")>>)
  IN IF k.err # NoErr THEN Ret(k.p, k.err, NilNode)
     ELSE LET n == Call("parseName", <<k.p, Name0>>) IN
     IF n.err # NoErr THEN Ret(n.p, n.err, NilNode)
     ELSE LET e == Call("expect", <<n.p, Equals>>) IN
     IF e.err # NoErr THEN Ret(e.p, e.err, NilNode)
     ELSE LET m == Call("parseUnionMembers", <<e.p>>) IN
     IF m.err # NoErr THEN Ret(m.p, m.err, NilNode)
     ELSE Ret(m.p, NoErr, [kind |-> "UnionTypeDef", Start |-> start,
                           End |-> m.p.prevEnd, Name |-> n.v,
                           NamedTypes |-> m.v])

parseScalarTypeDef(p) ==
  LET start == p.last.Start
      k == Call("expectKeyword", <<p, Lit("scalar")>>)
  IN IF k.err # NoErr THEN Ret(k.p, k.err, NilNode)
     ELSE LET n == Call("parseName", <<k.p, Name0>>) IN
     IF n.err # NoErr THEN Ret(n.p, n.err, NilNode)
     ELSE Ret(n.p, NoErr, [kind |-> "ScalarTypeDef", Start |-> start,
                           End |-> n.p.prevEnd, Name |-> n.v])

parseEnumTypeDef(p) ==
  LET start == p.last.Start
      k == Call("expectKeyword", <<p, Lit("enum")>>)
  IN IF k.err # NoErr THEN Ret(k.p, k.err, NilNode)
     ELSE LET n == Call("parseName", <<k.p, Name0>>) IN
     IF n.err # NoErr THEN Ret(n.p, n.err, NilNode)
     ELSE LET m == Call("many", <<n.p, BraceL, "EnumValueDef", BraceR, <<>>>>) IN
     IF m.err # NoErr THEN Ret(m.p, m.err, NilNode)
     ELSE Ret(m.p, NoErr, [kind |-> "EnumTypeDef", Start |-> start,
                           End |-> m.p.prevEnd, Name |-> n.v,
                           EnumValueDefs |-> m.v])

parseInputObjTypeDef(p) ==
  LET start == p.last.Start
      k == Call("expectKeyword", <<p, Lit("input")>>)
  IN IF k.err # NoErr THEN Ret(k.p, k.err, NilNode)
     ELSE LET n == Call("parseName", <<k.p, Name0>>) IN
     IF n.err # NoErr THEN Ret(n.p, n.err, NilNode)
     ELSE LET f == Call("any", <<n.p, BraceL, "InputValueDef", BraceR, <<>>>>) IN
     IF f.err # NoErr THEN Ret(f.p, f.err, NilNode)
     ELSE Ret(f.p, NoErr, [kind |-> "InputObjTypeDef", Start |-> start,
                           End |-> f.p.prevEnd, Name |-> n.v,
                           Fields |-> f.v])

parseTypeExtDef(p) ==
  LET t == [kind |-> "TypeExtDef", Start |-> p.last.Start, End |-> 0,
            Name |-> Name0, Interfaces |-> <<>>, FieldDefs |-> <<>>]
      k == Call("expectKeyword", <<p, Lit("extend")>>)
  IN IF k.err # NoErr THEN Ret(k.p, k.err, NilNode)
     ELSE LET o == Call("parseObjTypeDef", <<k.p, t>>) IN
     IF o.err # NoErr THEN Ret(o.p, o.err, NilNode)
     ELSE o

parseTypeDef(p) ==
  CASE p.last.Value = Lit("type") -> Call("parseObjTypeDef", <<p, NilNode>>)
    [] p.last.Value = Lit("interface") -> Call("parseInterfaceTypeDef", <<p>>)
    [] p.last.Value = Lit("union") -> Call("parseUnionTypeDef", <<p>>)
    [] p.last.Value = Lit("scalar") -> Call("parseScalarTypeDef", <<p>>)
    [] p.last.Value = Lit("enum") -> Call("parseEnumTypeDef", <<p>>)
    [] p.last.Value = Lit("input") -> Call("parseInputObjTypeDef", <<p>>)
    [] p.last.Value = Lit("extend") -> Call("parseTypeExtDef", <<p>>)
    [] OTHER -> Ret(p, SyntaxError(p.last.Start, "unrecognized typeDef",
                                   0 - 1, p.last.Value), NilNode)

\* parseOperation(o): [op, err].
parseOperation(o) ==
  CASE o = Lit("query") -> [op |-> "Query", err |-> NoErr]
    [] o = Lit("mutation") -> [op |-> "Mutation", err |-> NoErr]
    [] o = Lit("subscription") -> [op |-> "Subscription", err |-> NoErr]
    [] OTHER -> [op |-> "-1", err |-> PlainError("unrecognized operation", o)]

parseOpDef(p) ==
  LET start == p.last.Start IN
  IF p.last.Kind = BraceL
  THEN LET ss == Call("parseSelectionSet", <<p, SelectionSet0>>) IN
       IF ss.err # NoErr THEN Ret(ss.p, ss.err, NilNode)
       ELSE Ret(ss.p, NoErr,
                [kind |-> "OpDef", Start |-> start, End |-> ss.p.prevEnd,
                 Op |-> "Query", Name |-> Name0, VarDefs |-> <<>>,
                 Directives |-> <<>>, SelectionSet |-> ss.v])
  ELSE LET e == Call("expect", <<p, Name>>) IN
       IF e.err # NoErr THEN Ret(e.p, e.err, NilNode)
       ELSE LET op == Call("parseOperation", <<e.v.Value>>) IN
       IF op.err # NoErr THEN Ret(e.p, op.err, NilNode)
       ELSE LET n == IF e.p.last.Kind = Name THEN Call("parseName", <<e.p, Name0>>)
                     ELSE Ret(e.p, NoErr, Name0)
       IN IF n.err # NoErr THEN Ret(n.p, n.err, NilNode)
       ELSE LET vd == Call("parseVarDefs", <<n.p>>) IN
       IF vd.err # NoErr THEN Ret(vd.p, vd.err, NilNode)
       ELSE LET d == Call("parseDirectives", <<vd.p>>) IN
       IF d.err # NoErr THEN Ret(d.p, d.err, NilNode)
       ELSE LET ss == Call("parseSelectionSet", <<d.p, SelectionSet0>>) IN
       IF ss.err # NoErr THEN Ret(ss.p, ss.err, NilNode)
       ELSE Ret(ss.p, NoErr,
                [kind |-> "OpDef", Start |-> start, End |-> ss.p.prevEnd,
                 Op |-> op.op, Name |-> n.v, VarDefs |-> vd.v,
                 Directives |-> d.v, SelectionSet |-> ss.v])

parseFragmentDef(p) ==
  LET start == p.last.Start
      k == Call("expectKeyword", <<p, Lit("fragment")>>)
  IN IF k.err # NoErr THEN Ret(k.p, k.err, NilNode)
     ELSE LET n == Call("parseFragmentName", <<k.p, Name0>>) IN
     IF n.err # NoErr THEN Ret(n.p, n.err, NilNode)
     ELSE LET o == Call("expectKeyword", <<n.p, Lit("on")>>) IN
     IF o.err # NoErr THEN Ret(o.p, o.err, NilNode)
     ELSE LET tc == Call("parseNamedType", <<o.p, NamedType0>>) IN
     IF tc.err # NoErr THEN Ret(tc.p, tc.err, NilNode)
     ELSE LET d == Call("parseDirectives", <<tc.p>>) IN
     IF d.err # NoErr THEN Ret(d.p, d.err, NilNode)
     ELSE LET ss == Call("parseSelectionSet", <<d.p, SelectionSet0>>) IN
     IF ss.err # NoErr THEN Ret(ss.p, ss.err, NilNode)
     ELSE Ret(ss.p, NoErr,
              [kind |-> "FragmentDef", Start |-> start, End |-> ss.p.prevEnd,
               Name |-> n.v, TypeCondition |-> tc.v, Directives |-> d.v,
               SelectionSet |-> ss.v])

parseDefinition(p) ==
  IF p.last.Kind = BraceL THEN Call("parseOpDef", <<p>>)
  ELSE IF p.last.Kind = Name
  THEN IF p.last.Value \in {Lit("query"), Lit("mutation"), Lit("subscription")}
       THEN Call("parseOpDef", <<p>>)
       ELSE IF p.last.Value = Lit("fragment") THEN Call("parseFragmentDef", <<p>>)
       ELSE IF p.last.Value \in {Lit("type"), Lit("interface"), Lit("union"),
                                 Lit("scalar"), Lit("enum"), Lit("input"),
                                 Lit("extend")}
       THEN Call("parseTypeDef", <<p>>)
       ELSE Ret(p, SyntaxError(p.last.Start, "unexpected name", 0 - 1,
                               p.last.Value), NilNode)
  ELSE Ret(p, [SyntaxError(p.last.Start, "unexpected kind", 0 - 1, <<>>)
                 EXCEPT !.k = <<p.last.Kind>>], NilNode)

\* The loop of parseDocument left after the first definition.
parseDocumentLoop_first(p, defs) ==
  LET def == Call("parseDefinition", <<p>>) IN
  IF def.err # NoErr THEN Ret(def.p, def.err, defs)
  ELSE LET s == Call("skip", <<def.p, EOF>>) IN
       Ret(s.p, s.err, Append(defs, def.v))

\* The for loop of parseDocument; defs is d.Definitions so far.
parseDocumentLoop(p, defs) ==
  LET def == Call("parseDefinition", <<turn(p)>>) IN
  IF def.err # NoErr THEN Ret(def.p, def.err, defs)
  ELSE LET s == Call("skip", <<def.p, EOF>>) IN
       IF ~s.match /\ s.err = NoErr
       THEN Call("parseDocumentLoop", <<s.p, Append(defs, def.v)>>)
       ELSE Ret(s.p, s.err, Append(defs, def.v))

\* parseDocument returning the Document built so far with the error.
parseDocument_partial(p) ==
  LET start == p.last.Start
      l == Call("parseDocumentLoop", <<p, <<>>>>)
  IN Ret(l.p, l.err, [kind |-> "Document", Start |-> start,
                      End |-> l.p.prevEnd, Definitions |-> l.v])

parseDocument(p) ==
  LET start == p.last.Start
      l == Call("parseDocumentLoop", <<p, <<>>>>)
  IN IF l.err # NoErr THEN Ret(l.p, l.err, NilNode)
     ELSE Ret(l.p, NoErr, [kind |-> "Document", Start |-> start,
                           End |-> l.p.prevEnd, Definitions |-> l.v])

\* ParseString(source): [p, err, v]; p is the parser when the call returns
\* (NilParser when none was made).
NilParser ==
  [lexer |-> NilNode, prevEnd |-> 0, last |-> NilTok, log |-> <<>>, calls |-> 0,
   turns |-> <<>>]

ParseWith(nl) ==
  IF nl.err # NoErr THEN Ret(NilParser, nl.err, NilNode)
  ELSE LET np == Call("newParser", <<nl.l>>) IN
       IF np.err # NoErr THEN Ret(np.p, np.err, NilNode)
       ELSE Call("parseDocument", <<np.p>>)

\* newStringParser(s): [p, err].
newStringParser(s) ==
  LET nl == Call("NewStringLexer", <<s>>) IN
  IF nl.err # NoErr THEN [p |-> NilParser, err |-> nl.err]
  ELSE Call("newParser", <<nl.l>>)

\* p.rule(...) for the parsing method named rule, called as the package's
\* tests call it: with zero-valued out parameters.
parseRule(rule, p) ==
  CASE rule = "parseVarDefs" -> Call("parseVarDefs", <<p>>)
    [] rule = "parseArguments" -> Call("parseArguments", <<p>>)
    [] rule = "parseArgumentsDef" -> Call("parseArgumentsDef", <<p>>)
    [] rule = "parseSelectionSet" ->
         Call("parseSelectionSet", <<p, SelectionSet0>>)
    [] rule = "parseEnumTypeDef" -> Call("parseEnumTypeDef", <<p>>)
    [] rule = "parseList" -> Call("parseList", <<p, FALSE>>)
    [] rule = "parseObject" -> Call("parseObject", <<p, FALSE>>)
    [] rule = "parseObjTypeDef" -> Call("parseObjTypeDef", <<p, NilNode>>)
    [] rule = "parseInterfaceTypeDef" -> Call("parseInterfaceTypeDef", <<p>>)
    [] rule = "parseInputObjTypeDef" -> Call("parseInputObjTypeDef", <<p>>)
    [] rule = "parseFragment" -> Call("parseFragment", <<p>>)
    [] rule = "parseFragmentDef" -> Call("parseFragmentDef", <<p>>)
    [] rule = "parseVarDef" -> Call("parseVarDef", <<p>>)
    [] rule = "parseInputValueDef" -> Call("parseInputValueDef", <<p>>)
    [] rule = "parseValueLiteral" -> Call("parseValueLiteral", <<p, FALSE>>)
    [] rule = "parseConstValueLiteral" ->
         Call("parseValueLiteral", <<p, TRUE>>)
    [] rule = "parseDefinition" -> Call("parseDefinition", <<p>>)
    [] rule = "manyVarDef" ->
         Call("many", <<p, ParenL, "VarDef", ParenR, <<>>>>)
    [] rule = "manyArgument" ->
         Call("many", <<p, ParenL, "Argument", ParenR, <<>>>>)
    [] rule = "manyInputValueDef" ->
         Call("many", <<p, ParenL, "InputValueDef", ParenR, <<>>>>)
    [] rule = "parseField" -> Call("parseField", <<p>>)

\* p, err := newStringParser(s), then p.rule(...): [p, err, v].
parseRuleOn(rule, s) ==
  LET np == Call("newStringParser", <<s>>) IN
  IF np.err # NoErr THEN Ret(np.p, np.err, NilNode)
  ELSE Call("parseRule", <<rule, np.p>>)

(***************************************************************************)
(* Printer.  A printer is [Style, room, out, indent, err]: the style       *)
(* ("Pretty" or "Compact"), its Writer (out, the text written so far, and  *)
(* room, the number of calls of Write that will still succeed, -1 when     *)
(* every call succeeds), the depth of indentation and the error of the     *)
(* last print.  The printing methods return the printer after the call;    *)
(* the call returned true iff its err is NoErr.  Every caller stops at the *)
(* first method that returns false, so a method called on a printer whose  *)
(* err is set stands for a call that is not made and writes nothing.       *)
(***************************************************************************)
\* fmt.Fprint(p, s): one call of Write with the text s.
printer_print(p, s) ==
  IF p.err # NoErr THEN p
  ELSE IF p.room = 0 THEN [p EXCEPT !.err = ioErr]
  ELSE [p EXCEPT !.out = @ \o s, !.room = IF @ > 0 THEN @ - 1 ELSE @]

\* printf(`"%s"`, s)
printer_printf(p, s) ==
  Call("printer_print", <<p, <<34>> \o s \o <<34>>>>)

\* The loop of newLine from i on.
printer_tabs(p, i) ==
  IF i < p.indent /\ p.err = NoErr
  THEN Call("printer_tabs", <<Call("printer_print", <<p, Lit("\t")>>), i + 1>>)
  ELSE p

printer_newLine(p) ==
  IF p.Style = "Pretty"
  THEN Call("printer_tabs", <<Call("printer_print", <<p, Lit("\n")>>), 0>>)
  ELSE p

\* p.err = fmt.Errorf("Unable to print unrecognized ... type: %T", node)
printer_unrecognized(p, what, node) ==
  IF p.err # NoErr THEN p
  ELSE [p EXCEPT !.err = PlainError("Unable to print unrecognized type",
                                    <<what, node.kind>>)]

printer_beginBlock(p, s) ==
  [Call("printer_print", <<p, s>>) EXCEPT !.indent = @ + 1]

printer_endBlock(p, s) ==
  Call("printer_print",
       <<Call("printer_newLine", <<[p EXCEPT !.indent = @ - 1]>>), s>>)

\* The kinds of the types that are Definitions, Selections and RefTypes.
DefinitionKinds ==
  {"OpDef", "FragmentDef", "ObjTypeDef", "InterfaceTypeDef", "UnionTypeDef",
   "ScalarTypeDef", "EnumTypeDef", "InputObjTypeDef", "TypeExtDef"}
SelectionKinds == {"Field", "FragmentSpread", "InlineFragment"}
RefTypeKinds == {"NamedType", "ListType", "NonNullType"}

printer_node(p, node) ==
  CASE node.kind = "Document" -> Call("printer_document", <<p, node>>)
    [] node.kind = "Name" -> Call("printer_name", <<p, node>>)
    [] node.kind = "OpType" -> Call("printer_opType", <<p, node.Op>>)
    [] node.kind \in DefinitionKinds -> Call("printer_definition", <<p, node>>)
    [] node.kind = "VarDef" -> Call("printer_varDef", <<p, node>>)
    [] node.kind = "Variable" -> Call("printer_variable", <<p, node>>)
    [] node.kind = "SelectionSet" -> Call("printer_selectionSet", <<p, node>>)
    [] node.kind = "Argument" -> Call("printer_argument", <<p, node>>)
    [] node.kind \in SelectionKinds -> Call("printer_selection", <<p, node>>)
    [] node.kind = "ObjectField" -> Call("printer_objectField", <<p, node>>)
    [] node.kind = "Directive" -> Call("printer_directive", <<p, node>>)
    [] node.kind \in RefTypeKinds -> Call("printer_refType", <<p, node>>)
    [] OTHER -> Call("printer_unrecognized", <<p, "Node", node>>)

\* The loops over a list xs from its element i on: an optional newLine, the
\* method fn on the element, and the separator sep (when not <<>>) behind
\* every element but the last.
printer_elem(fn, p, x) ==
  CASE fn = "definition" -> Call("printer_definition", <<p, x>>)
    [] fn = "varDef" -> Call("printer_varDef", <<p, x>>)
    [] fn = "selection" -> Call("printer_selection", <<p, x>>)
    [] fn = "argument" -> Call("printer_argument", <<p, x>>)
    [] fn = "value" -> Call("printer_value", <<p, x>>)
    [] fn = "objectField" -> Call("printer_objectField", <<p, x>>)
    [] fn = "directive" -> Call("printer_directive", <<p, x>>)
    [] fn = "namedType" -> Call("printer_namedType", <<p, x>>)
    [] fn = " namedType" ->
         Call("printer_namedType", <<Call("printer_print", <<p, Lit(" ")>>), x>>)
    [] fn = "fieldDef" -> Call("printer_fieldDef", <<p, x>>)
    [] fn = "inputValueDef" -> Call("printer_inputValueDef", <<p, x>>)
    [] fn = "enumValueDef" -> Call("printer_enumValueDef", <<p, x>>)

printer_each(p, fn, xs, i, nl, sep) ==
  IF i > Len(xs) \/ p.err # NoErr THEN p
  ELSE LET p1 == IF nl THEN Call("printer_newLine", <<p>>) ELSE p
           p2 == Call("printer_elem", <<fn, p1, xs[i]>>)
           p3 == IF i < Len(xs) /\ sep # <<>>
                 THEN Call("printer_print", <<p2, sep>>) ELSE p2
       IN Call("printer_each", <<p3, fn, xs, i + 1, nl, sep>>)

printer_definitions(p, ds) ==
  Call("printer_each", <<p, "definition", ds, 1, TRUE, Lit(",")>>)

printer_document(p, d) ==
  Call("printer_endBlock",
       <<Call("printer_definitions",
              <<Call("printer_beginBlock", <<p, Lit("{")>>), d.Definitions>>),
         Lit("}")>>)

printer_definition(p, d) ==
  CASE d.kind = "OpDef" -> Call("printer_opDef", <<p, d>>)
    [] d.kind = "FragmentDef" -> Call("printer_fragmentDef", <<p, d>>)
    [] d.kind \in DefinitionKinds \ {"OpDef", "FragmentDef"} ->
         Call("printer_typeDef", <<p, d>>)
    [] OTHER -> Call("printer_unrecognized", <<p, "Definition", d>>)

printer_name(p, n) == Call("printer_print", <<p, n.Value>>)

\* opStrings[*o]
printer_opType(p, o) ==
  Call("printer_print",
       <<p, CASE o = "Query" -> Lit("query")
              [] o = "Mutation" -> Lit("mutation")
              [] o = "Subscription" -> Lit("subscription")
              [] OTHER -> <<>>>>)

printer_varDefs(p, vds) ==
  Call("printer_each", <<p, "varDef", vds, 1, TRUE, Lit(",")>>)

printer_opDef(p, o) ==
  LET p1 == IF o.Op # "Query" \/ o.Name.Value # <<>> \/ Len(o.VarDefs) > 0
               \/ Len(o.Directives) > 0
            THEN LET a == Call("printer_opType", <<p, o.Op>>)
                     b == IF o.Name.Value # <<>>
                          THEN Call("printer_name",
                                    <<Call("printer_print", <<a, Lit(" ")>>),
                                      o.Name>>)
                          ELSE a
                     c == IF Len(o.VarDefs) > 0
                          THEN Call("printer_endBlock",
                                 <<Call("printer_varDefs",
                                     <<Call("printer_beginBlock", <<b, Lit("(")>>),
                                       o.VarDefs>>),
                                   Lit(")")>>)
                          ELSE b
                 IN IF Len(o.Directives) > 0
                    THEN Call("printer_directives", <<c, o.Directives>>)
                    ELSE c
            ELSE p
  IN Call("printer_selectionSet", <<p1, o.SelectionSet>>)

printer_defaultValue(p, v) ==
  Call("printer_value", <<Call("printer_print", <<p, Lit("=")>>), v>>)

printer_varDef(p, vd) ==
  LET b == Call("printer_refType",
                <<Call("printer_print",
                       <<Call("printer_variable", <<p, vd.Variable>>), Lit(":")>>),
                  vd.RefType>>)
  IN IF vd.DefaultValue # NilNode
     THEN Call("printer_defaultValue", <<b, vd.DefaultValue>>)
     ELSE b

printer_variable(p, d) ==
  Call("printer_name", <<Call("printer_print", <<p, Lit("$")>>), d.Name>>)

printer_selections(p, ss) ==
  Call("printer_each", <<p, "selection", ss, 1, TRUE, Lit(",")>>)

printer_selectionSet(p, ss) ==
  IF Len(ss.Selections) = 0 THEN Call("printer_print", <<p, Lit("{}")>>)
  ELSE Call("printer_endBlock",
            <<Call("printer_selections",
                   <<Call("printer_beginBlock", <<p, Lit("{")>>),
                     ss.Selections>>),
              Lit("}")>>)

printer_selection(p, s) ==
  CASE s.kind = "Field" -> Call("printer_field", <<p, s>>)
    [] s.kind = "FragmentSpread" -> Call("printer_fragmentSpread", <<p, s>>)
    [] s.kind = "InlineFragment" -> Call("printer_inlineFragment", <<p, s>>)
    [] OTHER -> Call("printer_unrecognized", <<p, "Selection", s>>)

printer_field(p, f) ==
  LET a == IF f.Alias.Value # <<>>
           THEN Call("printer_print",
                     <<Call("printer_name", <<p, f.Alias>>), Lit(" ")>>)
           ELSE p
      b == Call("printer_directives",
                <<Call("printer_arguments",
                       <<Call("printer_name", <<a, f.Name>>), f.Arguments>>),
                  f.Directives>>)
  IN IF Len(f.SelectionSet.Selections) > 0
     THEN Call("printer_selectionSet", <<b, f.SelectionSet>>)
     ELSE b

printer_arguments(p, as) ==
  IF Len(as) > 0
  THEN Call("printer_endBlock",
            <<Call("printer_each",
                   <<Call("printer_beginBlock", <<p, Lit("(")>>), "argument",
                     as, 1, TRUE, Lit(",")>>),
              Lit(")")>>)
  ELSE p

printer_argument(p, a) ==
  Call("printer_value",
       <<Call("printer_print", <<Call("printer_name", <<p, a.Name>>), Lit(":")>>),
         a.Value>>)

printer_fragmentSpread(p, f) ==
  LET b == Call("printer_name",
                <<Call("printer_print", <<p, Lit("...")>>), f.Name>>)
  IN IF Len(f.Directives) > 0
     THEN Call("printer_directives", <<b, f.Directives>>)
     ELSE b

printer_inlineFragment(p, i) ==
  LET a == Call("printer_print", <<p, Lit("...")>>)
      b == IF i.NamedType.Value # <<>>
           THEN Call("printer_namedType", <<a, i.NamedType>>)
           ELSE a
      c == IF Len(i.Directives) > 0
           THEN Call("printer_directives", <<b, i.Directives>>)
           ELSE b
  IN Call("printer_selectionSet", <<c, i.SelectionSet>>)

printer_fragmentDef(p, f) ==
  LET b == Call("printer_namedType",
             <<Call("printer_print",
                 <<Call("printer_name",
                        <<Call("printer_print", <<p, Lit("fragment ")>>),
                          f.Name>>),
                   Lit(" on ")>>),
               f.TypeCondition>>)
      c == IF Len(f.Directives) > 0
           THEN Call("printer_directives", <<b, f.Directives>>)
           ELSE b
  IN Call("printer_selectionSet", <<c, f.SelectionSet>>)

\* strconv.FormatBool(b)
FormatBool(b) == IF b THEN Lit("true") ELSE Lit("false")

printer_value(p, v) ==
  CASE v.kind \in {"Int", "Float", "Enum"} ->
         Call("printer_print", <<p, v.Value>>)
    [] v.kind = "String" -> Call("printer_printf", <<p, v.Value>>)
    [] v.kind = "Boolean" -> Call("printer_print", <<p, FormatBool(v.Value)>>)
    [] v.kind = "List" -> Call("printer_list", <<p, v>>)
    [] v.kind = "Object" -> Call("printer_object", <<p, v>>)
    [] OTHER -> Call("printer_unrecognized", <<p, "Value", v>>)

printer_list(p, l) ==
  Call("printer_print",
       <<Call("printer_each",
              <<Call("printer_print", <<p, Lit("[")>>), "value", l.Values, 1,
                FALSE, Lit(",")>>),
         Lit("]")>>)

printer_object(p, o) ==
  Call("printer_print",
       <<Call("printer_each",
              <<Call("printer_print", <<p, Lit("{")>>), "objectField",
                o.Fields, 1, FALSE, Lit(",")>>),
         Lit("}")>>)

printer_objectField(p, of) ==
  Call("printer_value",
       <<Call("printer_print", <<Call("printer_name", <<p, of.Name>>), Lit(":")>>),
         of.Value>>)

printer_directives(p, ds) ==
  Call("printer_each", <<p, "directive", ds, 1, TRUE, <<>>>>)

printer_directive(p, d) ==
  Call("printer_arguments",
       <<Call("printer_name", <<Call("printer_print", <<p, Lit("@")>>), d.Name>>),
         d.Arguments>>)

printer_refType(p, rt) ==
  CASE rt.kind = "NamedType" -> Call("printer_namedType", <<p, rt>>)
    [] rt.kind = "ListType" -> Call("printer_listType", <<p, rt>>)
    [] rt.kind = "NonNullType" -> Call("printer_nonNullType", <<p, rt>>)
    [] OTHER -> Call("printer_unrecognized", <<p, "RefType", rt>>)

printer_namedType(p, d) == Call("printer_name", <<p, d>>)

printer_listType(p, d) ==
  Call("printer_print",
       <<Call("printer_refType",
              <<Call("printer_print", <<p, Lit("[")>>), d.RefType>>),
         Lit("]")>>)

printer_nonNullType(p, d) ==
  Call("printer_print", <<Call("printer_refType", <<p, d.RefType>>), Lit("!")>>)

printer_typeDef(p, td) ==
  CASE td.kind = "ObjTypeDef" -> Call("printer_objTypeDef", <<p, td>>)
    [] td.kind = "InterfaceTypeDef" -> Call("printer_interfaceTypeDef", <<p, td>>)
    [] td.kind = "UnionTypeDef" -> Call("printer_unionTypeDef", <<p, td>>)
    [] td.kind = "ScalarTypeDef" -> Call("printer_scalarTypeDef", <<p, td>>)
    [] td.kind = "EnumTypeDef" -> Call("printer_enumTypeDef", <<p, td>>)
    [] td.kind = "InputObjTypeDef" -> Call("printer_inputObjTypeDef", <<p, td>>)
    [] td.kind = "TypeExtDef" -> Call("printer_typeExtDef", <<p, td>>)
    [] OTHER -> Call("printer_unrecognized", <<p, "TypeDef", td>>)

printer_objTypeDef(p, o) ==
  LET a == Call("printer_name",
                <<Call("printer_print", <<p, Lit("type ")>>), o.Name>>)
      b == IF Len(o.Interfaces) > 0
           THEN Call("printer_implementsInterfaces", <<a, o.Interfaces>>)
           ELSE a
  IN IF Len(o.FieldDefs) > 0
     THEN Call("printer_fieldDefs", <<b, o.FieldDefs>>)
     ELSE b

printer_implementsInterfaces(p, is) ==
  Call("printer_each",
       <<Call("printer_print", <<p, Lit(" implements")>>), " namedType", is, 1,
         FALSE, <<>>>>)

printer_fieldDefs(p, fds) ==
  IF Len(fds) = 0 THEN Call("printer_print", <<p, Lit("{}")>>)
  ELSE Call("printer_endBlock",
            <<Call("printer_each",
                   <<Call("printer_beginBlock", <<p, Lit("{")>>), "fieldDef",
                     fds, 1, TRUE, Lit(",")>>),
              Lit("}")>>)

printer_fieldDef(p, fd) ==
  Call("printer_refType",
       <<Call("printer_print",
              <<Call("printer_inputValueDefs",
                     <<Call("printer_name", <<p, fd.Name>>), fd.Arguments>>),
                Lit(":")>>),
         fd.RefType>>)

printer_inputValueDefs(p, is) ==
  IF Len(is) = 0 THEN Call("printer_print", <<p, Lit("{}")>>)
  ELSE Call("printer_endBlock",
            <<Call("printer_each",
                   <<Call("printer_beginBlock", <<p, Lit("{")>>),
                     "inputValueDef", is, 1, TRUE, Lit(",")>>),
              Lit("}")>>)

printer_inputValueDef(p, i) ==
  LET b == Call("printer_refType",
                <<Call("printer_print",
                       <<Call("printer_name", <<p, i.Name>>), Lit(":")>>),
                  i.RefType>>)
  IN IF i.DefaultValue # NilNode
     THEN Call("printer_defaultValue", <<b, i.DefaultValue>>)
     ELSE b

printer_interfaceTypeDef(p, i) ==
  Call("printer_fieldDefs",
       <<Call("printer_name",
              <<Call("printer_print", <<p, Lit("interface ")>>), i.Name>>),
         i.FieldDefs>>)

printer_unionMembers(p, ums) ==
  Call("printer_each", <<p, "namedType", ums, 1, FALSE, Lit("|")>>)

printer_unionTypeDef(p, u) ==
  Call("printer_unionMembers",
       <<Call("printer_print",
              <<Call("printer_name",
                     <<Call("printer_print", <<p, Lit("union ")>>), u.Name>>),
                Lit("=")>>),
         u.NamedTypes>>)

printer_scalarTypeDef(p, s) ==
  Call("printer_name", <<Call("printer_print", <<p, Lit("scalar ")>>), s.Name>>)

printer_enumValueDefs(p, es) ==
  Call("printer_print",
       <<Call("printer_each",
              <<Call("printer_print", <<p, Lit("{")>>), "enumValueDef", es, 1,
                FALSE, Lit(",")>>),
         Lit("}")>>)

printer_enumTypeDef(p, e) ==
  Call("printer_enumValueDefs",
       <<Call("printer_name",
              <<Call("printer_print", <<p, Lit("enum ")>>), e.Name>>),
         e.EnumValueDefs>>)

printer_enumValueDef(p, e) == Call("printer_name", <<p, e>>)

printer_inputObjTypeDef(p, d) ==
  Call("printer_inputValueDefs",
       <<Call("printer_name",
              <<Call("printer_print", <<p, Lit("input ")>>), d.Name>>),
         d.Fields>>)

printer_typeExtDef(p, d) ==
  Call("printer_objTypeDef", <<Call("printer_print", <<p, Lit("extend ")>>), d>>)

\* s.Fprint(w, node): [out, err], the text written to w and the error
\* returned; room is the number of calls of w.Write that succeed, -1 when
\* all do.
Fprint(s, room, node) ==
  LET p == Call("printer_node",
                <<[Style |-> s, room |-> room, out |-> <<>>, indent |-> 0,
                   err |-> NoErr], node>>)
  IN [out |-> p.out, err |-> p.err]

(***************************************************************************)
(* Two parses side by side.  A parse is [source, via, at, lexer, p, start, *)
(* defs, doc, err]: its text and entry point, where it is ("start", then   *)
(* "lexer" once its Lexer is made, "parser" while parseDocument loops,     *)
(* "done" when it has returned), its Lexer and parser, the Start and the   *)
(* Definitions of its Document so far, and what it returned.  A step is    *)
(* the call that makes the Lexer, newParser, or one turn of the loop of    *)
(* parseDocument.  The steps take the parses ps and the index i of the one *)
(* that moves, and give the parses after the step.                         *)
(***************************************************************************)
Parse0(s) ==
  [source |-> s, via |-> "", at |-> "start", lexer |-> NilNode,
   p |-> NilParser, start |-> 0, defs |-> <<>>, doc |-> NilNode,
   err |-> NoErr]

\* return nil, err and return &d, nil
returned(q, doc, err) == [q EXCEPT !.at = "done", !.doc = doc, !.err = err]

\* The step that takes the Lexer another parse has made when there is one.
newLexerStep_reused(ps, i, via) ==
  LET o == ps[3 - i]
      nl == IF o.at \in {"parser", "done"} /\ o.p.lexer # NilNode
            THEN [l |-> o.p.lexer, err |-> NoErr]
            ELSE IF via = "string" THEN Call("NewStringLexer", <<ps[i].source>>)
            ELSE Call("NewReaderLexer", <<ps[i].source, 0 - 1>>)
  IN [ps EXCEPT ![i] =
        IF nl.err # NoErr THEN returned([@ EXCEPT !.via = via], NilNode, nl.err)
        ELSE [@ EXCEPT !.via = via, !.at = "lexer", !.lexer = nl.l]]

\* l, err := lexer.NewStringLexer(s) or lexer.NewReaderLexer(r)
newLexerStep(ps, i, via) ==
  LET nl == IF via = "string" THEN Call("NewStringLexer", <<ps[i].source>>)
            ELSE Call("NewReaderLexer", <<ps[i].source, 0 - 1>>)
  IN [ps EXCEPT ![i] =
        IF nl.err # NoErr THEN returned([@ EXCEPT !.via = via], NilNode, nl.err)
        ELSE [@ EXCEPT !.via = via, !.at = "lexer", !.lexer = nl.l]]

\* p, err := newParser(l.Lex), and d.Start = p.last.Start
newParserStep(ps, i) ==
  LET np == Call("newParser", <<ps[i].lexer>>) IN
  [ps EXCEPT ![i] =
     IF np.err # NoErr THEN returned([@ EXCEPT !.p = np.p], NilNode, np.err)
     ELSE [@ EXCEPT !.at = "parser", !.p = np.p, !.start = np.p.last.Start]]

\* The turn of the loop taken with the parser of the first parse, which is
\* left to both.
parseDefinitionStep_shared(ps, i) ==
  LET q == ps[i]
      def == Call("parseDefinition", <<ps[1].p>>)
      s == Call("skip", <<def.p, EOF>>)
      defs == Append(q.defs, def.v)
      after ==
        IF def.err # NoErr
        THEN returned([q EXCEPT !.p = def.p], NilNode, def.err)
        ELSE IF s.err # NoErr
        THEN returned([q EXCEPT !.p = s.p], NilNode, s.err)
        ELSE IF s.match
        THEN returned([q EXCEPT !.p = s.p, !.defs = defs],
                      [kind |-> "Document", Start |-> q.start,
                       End |-> s.p.prevEnd, Definitions |-> defs], NoErr)
        ELSE [q EXCEPT !.p = s.p, !.defs = defs]
  IN [j \in 1..2 |-> IF j = i THEN after ELSE [ps[j] EXCEPT !.p = after.p]]

\* One turn of the loop of parseDocument: parseDefinition, append, then
\* skip(EOF); and the returns of parseDocument.
parseDefinitionStep(ps, i) ==
  LET q == ps[i]
      def == Call("parseDefinition", <<turn(q.p)>>)
      s == Call("skip", <<def.p, EOF>>)
      defs == Append(q.defs, def.v)
  IN [ps EXCEPT ![i] =
        IF def.err # NoErr
        THEN returned([q EXCEPT !.p = def.p], NilNode, def.err)
        ELSE IF s.err # NoErr
        THEN returned([q EXCEPT !.p = s.p], NilNode, s.err)
        ELSE IF s.match
        THEN returned([q EXCEPT !.p = s.p, !.defs = defs],
                      [kind |-> "Document", Start |-> q.start,
                       End |-> s.p.prevEnd, Definitions |-> defs], NoErr)
        ELSE [q EXCEPT !.p = s.p, !.defs = defs]]

Call(fn, a) ==
  CASE fn = "advance" -> advance(a[1])
    [] fn = "NewLexer" -> NewLexer(a[1])
    [] fn = "NewStringLexer" -> NewStringLexer(a[1])
    [] fn = "NewReaderLexer" -> NewReaderLexer(a[1], a[2])
    [] fn = "readNameLoop" -> readNameLoop(a[1], a[2])
    [] fn = "readName" -> readName(a[1], a[2])
    [] fn = "advanceComment" -> advanceComment(a[1])
    [] fn = "advanceToNextToken" -> advanceToNextToken(a[1])
    [] fn = "advanceDigits" -> advanceDigits(a[1])
    [] fn = "readNumberEnd" -> readNumberEnd(a[1], a[2])
    [] fn = "readNumberExponent" -> readNumberExponent(a[1], a[2])
    [] fn = "readNumberDecimal" -> readNumberDecimal(a[1], a[2])
    [] fn = "readNumberInt" -> readNumberInt(a[1], a[2])
    [] fn = "readNumber" -> readNumber(a[1], a[2])
    [] fn = "readUnicode" -> readUnicode(a[1], a[2])
    [] fn = "readStringLoop" -> readStringLoop(a[1], a[2], a[3])
    [] fn = "readString" -> readString(a[1], a[2])
    [] fn = "expectDot" -> expectDot(a[1], a[2])
    [] fn = "readSpread" -> readSpread(a[1], a[2])
    [] fn = "Lex" -> Lex(a[1], a[2])
    [] fn = "parser_advance" -> parser_advance(a[1])
    [] fn = "newParser" -> newParser(a[1])
    [] fn = "skip" -> skip(a[1], a[2])
    [] fn = "expect" -> expect(a[1], a[2])
    [] fn = "expectKeyword" -> expectKeyword(a[1], a[2])
    [] fn = "parseName" -> parseName(a[1], a[2])
    [] fn = "parseNamedType" -> parseNamedType(a[1], a[2])
    [] fn = "parseVariable" -> parseVariable(a[1], a[2])
    [] fn = "parseFragmentName" -> parseFragmentName(a[1], a[2])
    [] fn = "parseRefType" -> parseRefType(a[1])
    [] fn = "anyLoop" -> anyLoop(a[1], a[2], a[3], a[4])
    [] fn = "any" -> any(a[1], a[2], a[3], a[4], a[5])
    [] fn = "manyLoop" -> manyLoop(a[1], a[2], a[3], a[4])
    [] fn = "many" -> many(a[1], a[2], a[3], a[4], a[5])
    [] fn = "parseList" -> parseList(a[1], a[2])
    [] fn = "parseObject" -> parseObject(a[1], a[2])
    [] fn = "parseObjectField" -> parseObjectField(a[1], a[2])
    [] fn = "parseValueLiteral" -> parseValueLiteral(a[1], a[2])
    [] fn = "parseArgument" -> parseArgument(a[1])
    [] fn = "parseArguments" -> parseArguments(a[1])
    [] fn = "parseDirective" -> parseDirective(a[1])
    [] fn = "parseDirectivesLoop" -> parseDirectivesLoop(a[1], a[2])
    [] fn = "parseDirectives" -> parseDirectives(a[1])
    [] fn = "parseVarDef" -> parseVarDef(a[1])
    [] fn = "parseVarDefs" -> parseVarDefs(a[1])
    [] fn = "parseField" -> parseField(a[1])
    [] fn = "parseFragment" -> parseFragment(a[1])
    [] fn = "parseSelection" -> parseSelection(a[1])
    [] fn = "parseSelectionSet" -> parseSelectionSet(a[1], a[2])
    [] fn = "parseInputValueDef" -> parseInputValueDef(a[1])
    [] fn = "parseArgumentsDef" -> parseArgumentsDef(a[1])
    [] fn = "parseFieldDef" -> parseFieldDef(a[1])
    [] fn = "parseEnumValueDef" -> parseEnumValueDef(a[1])
    [] fn = "parseFn" -> parseFn(a[1], a[2])
    [] fn = "parseImplementsLoop" -> parseImplementsLoop(a[1], a[2])
    [] fn = "parseImplementsInterfaces" -> parseImplementsInterfaces(a[1])
    [] fn = "parseObjTypeDef" -> parseObjTypeDef(a[1], a[2])
    [] fn = "parseInterfaceTypeDef" -> parseInterfaceTypeDef(a[1])
    [] fn = "parseUnionMembersLoop" -> parseUnionMembersLoop(a[1], a[2])
    [] fn = "parseUnionMembers" -> parseUnionMembers(a[1])
    [] fn = "parseUnionTypeDef" -> parseUnionTypeDef(a[1])
    [] fn = "parseScalarTypeDef" -> parseScalarTypeDef(a[1])
    [] fn = "parseEnumTypeDef" -> parseEnumTypeDef(a[1])
    [] fn = "parseInputObjTypeDef" -> parseInputObjTypeDef(a[1])
    [] fn = "parseTypeExtDef" -> parseTypeExtDef(a[1])
    [] fn = "parseTypeDef" -> parseTypeDef(a[1])
    [] fn = "parseOperation" -> parseOperation(a[1])
    [] fn = "parseOpDef" -> parseOpDef(a[1])
    [] fn = "parseFragmentDef" -> parseFragmentDef(a[1])
    [] fn = "parseDefinition" -> parseDefinition(a[1])
    [] fn = "parseDocumentLoop" -> parseDocumentLoop(a[1], a[2])
    [] fn = "parseDocument" -> parseDocument(a[1])
    [] fn = "ParseWith" -> ParseWith(a[1])
    [] fn = "newStringParser" -> newStringParser(a[1])
    [] fn = "parseRule" -> parseRule(a[1], a[2])
    [] fn = "parseRuleOn" -> parseRuleOn(a[1], a[2])
    [] fn = "printer_print" -> printer_print(a[1], a[2])
    [] fn = "printer_printf" -> printer_printf(a[1], a[2])
    [] fn = "printer_tabs" -> printer_tabs(a[1], a[2])
    [] fn = "printer_newLine" -> printer_newLine(a[1])
    [] fn = "printer_unrecognized" -> printer_unrecognized(a[1], a[2], a[3])
    [] fn = "printer_beginBlock" -> printer_beginBlock(a[1], a[2])
    [] fn = "printer_endBlock" -> printer_endBlock(a[1], a[2])
    [] fn = "printer_node" -> printer_node(a[1], a[2])
    [] fn = "printer_elem" -> printer_elem(a[1], a[2], a[3])
    [] fn = "printer_each" -> printer_each(a[1], a[2], a[3], a[4], a[5], a[6])
    [] fn = "printer_definitions" -> printer_definitions(a[1], a[2])
    [] fn = "printer_document" -> printer_document(a[1], a[2])
    [] fn = "printer_definition" -> printer_definition(a[1], a[2])
    [] fn = "printer_name" -> printer_name(a[1], a[2])
    [] fn = "printer_opType" -> printer_opType(a[1], a[2])
    [] fn = "printer_varDefs" -> printer_varDefs(a[1], a[2])
    [] fn = "printer_opDef" -> printer_opDef(a[1], a[2])
    [] fn = "printer_defaultValue" -> printer_defaultValue(a[1], a[2])
    [] fn = "printer_varDef" -> printer_varDef(a[1], a[2])
    [] fn = "printer_variable" -> printer_variable(a[1], a[2])
    [] fn = "printer_selections" -> printer_selections(a[1], a[2])
    [] fn = "printer_selectionSet" -> printer_selectionSet(a[1], a[2])
    [] fn = "printer_selection" -> printer_selection(a[1], a[2])
    [] fn = "printer_field" -> printer_field(a[1], a[2])
    [] fn = "printer_arguments" -> printer_arguments(a[1], a[2])
    [] fn = "printer_argument" -> printer_argument(a[1], a[2])
    [] fn = "printer_fragmentSpread" -> printer_fragmentSpread(a[1], a[2])
    [] fn = "printer_inlineFragment" -> printer_inlineFragment(a[1], a[2])
    [] fn = "printer_fragmentDef" -> printer_fragmentDef(a[1], a[2])
    [] fn = "printer_value" -> printer_value(a[1], a[2])
    [] fn = "printer_list" -> printer_list(a[1], a[2])
    [] fn = "printer_object" -> printer_object(a[1], a[2])
    [] fn = "printer_objectField" -> printer_objectField(a[1], a[2])
    [] fn = "printer_directives" -> printer_directives(a[1], a[2])
    [] fn = "printer_directive" -> printer_directive(a[1], a[2])
    [] fn = "printer_refType" -> printer_refType(a[1], a[2])
    [] fn = "printer_namedType" -> printer_namedType(a[1], a[2])
    [] fn = "printer_listType" -> printer_listType(a[1], a[2])
    [] fn = "printer_nonNullType" -> printer_nonNullType(a[1], a[2])
    [] fn = "printer_typeDef" -> printer_typeDef(a[1], a[2])
    [] fn = "printer_objTypeDef" -> printer_objTypeDef(a[1], a[2])
    [] fn = "printer_implementsInterfaces" -> printer_implementsInterfaces(a[1], a[2])
    [] fn = "printer_fieldDefs" -> printer_fieldDefs(a[1], a[2])
    [] fn = "printer_fieldDef" -> printer_fieldDef(a[1], a[2])
    [] fn = "printer_inputValueDefs" -> printer_inputValueDefs(a[1], a[2])
    [] fn = "printer_inputValueDef" -> printer_inputValueDef(a[1], a[2])
    [] fn = "printer_interfaceTypeDef" -> printer_interfaceTypeDef(a[1], a[2])
    [] fn = "printer_unionMembers" -> printer_unionMembers(a[1], a[2])
    [] fn = "printer_unionTypeDef" -> printer_unionTypeDef(a[1], a[2])
    [] fn = "printer_scalarTypeDef" -> printer_scalarTypeDef(a[1], a[2])
    [] fn = "printer_enumValueDefs" -> printer_enumValueDefs(a[1], a[2])
    [] fn = "printer_enumTypeDef" -> printer_enumTypeDef(a[1], a[2])
    [] fn = "printer_enumValueDef" -> printer_enumValueDef(a[1], a[2])
    [] fn = "printer_inputObjTypeDef" -> printer_inputObjTypeDef(a[1], a[2])
    [] fn = "printer_typeExtDef" -> printer_typeExtDef(a[1], a[2])
    [] fn = "Fprint" -> Fprint(a[1], a[2], a[3])
    [] fn = "newLexerStep" -> newLexerStep(a[1], a[2], a[3])
    [] fn = "newParserStep" -> newParserStep(a[1], a[2])
    [] fn = "parseDefinitionStep" -> parseDefinitionStep(a[1], a[2])

ParseString(source) == Call("ParseWith", <<Call("NewStringLexer", <<source>>)>>)

ParseReader(source, failAt) == Call("ParseWith", <<Call("NewReaderLexer", <<source, failAt>>)>>)

(***************************************************************************)
(* Source texts.                                                           *)
(***************************************************************************)
\* Bounds.
MaxNum == 4
MaxStr == 3
MaxMisc == 3
MaxLex == 3

\* All sequences of at most n elements of S.
SeqsUpTo(S, n) == UNION {[1..k -> S] : k \in 0..n}

\* The concatenation of a sequence of strings.
RECURSIVE Flatten(_)
Flatten(ss) == IF ss = <<>> THEN <<>> ELSE Head(ss) \o Flatten(Tail(ss))

\* Texts made of the characters of numbers: - 0 1 . e + and the space.
NumSources == SeqsUpTo({45, 48, 49, 46, 101, 43, 32}, MaxNum)

\* The pieces of string literals: " a \n \q á \uD800 \u12 \ and the raw
\* LF, BS (a control character), TAB and U+FFFD.
StrPieces ==
  {<<34>>, <<97>>, <<92, 110>>, <<92, 113>>, <<92, 117, 48, 48, 101, 49>>,
   <<92, 117, 68, 56, 48, 48>>, <<92, 117, 49, 50>>, <<92>>, <<10>>, <<8>>,
   <<9>>, <<65533>>}

\* An opening quote followed by at most MaxStr pieces.
StrSources == {<<34>> \o Flatten(ps) : ps \in SeqsUpTo(StrPieces, MaxStr)}

\* Texts of punctuators, dots, names, ignored characters, comments, runes of
\* several bytes, an invalid byte and a control character.
MiscSources ==
  SeqsUpTo({123, 46, 97, 32, 10, 35, 65533, 233, BadByte, 7, 49}, MaxMisc)

\* Numbers with an exponent marker followed by a rune that is neither a sign
\* nor a digit: 1, -1, 0 or 1.5, then e or E, then a, U+00E9 or U+FFFD.
ExpSources ==
  {n \o <<e, r>> : n \in {<<49>>, <<45, 49>>, <<48>>, <<49, 46, 53>>},
                   e \in {101, 69}, r \in {97, 233, 65533}}

\* The twelve punctuators ! $ ( ) : = @ [ ] { | }, one, two and three dots,
\* the names a_1 and _B, a space, the BOM and the letter U+00E9.
TokPieces ==
  {<<33>>, <<36>>, <<40>>, <<41>>, <<58>>, <<61>>, <<64>>, <<91>>, <<93>>,
   <<123>>, <<124>>, <<125>>, <<46>>, <<46, 46>>, <<46, 46, 46>>,
   <<97, 95, 49>>, <<95, 66>>, <<32>>, <<65279>>, <<233>>}

\* One of these pieces, or two of them one after the other.
TokSources == {a \o b : a \in TokPieces \cup {<<>>}, b \in TokPieces}

LexSources ==
  NumSources \cup StrSources \cup MiscSources \cup ExpSources \cup TokSources

(***************************************************************************)
(* The state machine.                                                      *)
(***************************************************************************)
\* The documents the parser is run on, each a sequence of pieces of text.
Corpus ==
  <<
    \* query a($b:[C!]!=[1 2])@d{e}
    <<<<113, 117, 101, 114, 121>>, <<32, 97>>, <<40>>, <<36, 98>>, <<58>>,
      <<91>>, <<67>>, <<33>>, <<93>>, <<33>>, <<61>>, <<91>>, <<49>>, <<32,
      50>>, <<93>>, <<41>>, <<64, 100>>, <<123>>, <<101>>, <<125>>>>,
    \* {f:g(h:1.5,i:$j)@k{l} ...m ...on N{o}}
    <<<<123>>, <<102>>, <<58>>, <<103>>, <<40>>, <<104>>, <<58>>, <<49, 46,
      53>>, <<44>>, <<105>>, <<58>>, <<36, 106>>, <<41>>, <<64, 107>>,
      <<123>>, <<108>>, <<125>>, <<32, 46, 46, 46>>, <<109>>, <<32, 46, 46,
      46>>, <<111, 110>>, <<32, 78>>, <<123>>, <<111>>, <<125>>, <<125>>>>,
    \* mutation{a(b:{c:"s",d:true e:E})}
    <<<<109, 117, 116, 97, 116, 105, 111, 110>>, <<123>>, <<97>>, <<40>>,
      <<98>>, <<58>>, <<123>>, <<99>>, <<58>>, <<34, 115, 34>>, <<44>>,
      <<100>>, <<58>>, <<116, 114, 117, 101>>, <<32, 101>>, <<58>>, <<69>>,
      <<125>>, <<41>>, <<125>>>>,
    \* fragment a on B@c(d:-3){e}
    <<<<102, 114, 97, 103, 109, 101, 110, 116>>, <<32, 97>>, <<32, 111,
      110>>, <<32, 66>>, <<64, 99>>, <<40>>, <<100>>, <<58>>, <<45, 51>>,
      <<41>>, <<123>>, <<101>>, <<125>>>>,
    \* type A implements B C{d(e:F=1):[G]!}
    <<<<116, 121, 112, 101>>, <<32, 65>>, <<32, 105, 109, 112, 108, 101,
      109, 101, 110, 116, 115>>, <<32, 66>>, <<32, 67>>, <<123>>, <<100>>,
      <<40>>, <<101>>, <<58>>, <<70>>, <<61>>, <<49>>, <<41>>, <<58>>,
      <<91>>, <<71>>, <<93>>, <<33>>, <<125>>>>,
    \* interface A{b:C}union D=E|F scalar G
    <<<<105, 110, 116, 101, 114, 102, 97, 99, 101>>, <<32, 65>>, <<123>>,
      <<98>>, <<58>>, <<67>>, <<125>>, <<117, 110, 105, 111, 110>>, <<32,
      68>>, <<61>>, <<69>>, <<124>>, <<70>>, <<32, 115, 99, 97, 108, 97,
      114>>, <<32, 71>>>>,
    \* enum A{B C}input D{e:F=[2]}
    <<<<101, 110, 117, 109>>, <<32, 65>>, <<123>>, <<66>>, <<32, 67>>,
      <<125>>, <<105, 110, 112, 117, 116>>, <<32, 68>>, <<123>>, <<101>>,
      <<58>>, <<70>>, <<61>>, <<91>>, <<50>>, <<93>>, <<125>>>>,
    \* extend type A{b:C}#x\n{c}
    <<<<101, 120, 116, 101, 110, 100>>, <<32, 116, 121, 112, 101>>, <<32,
      65>>, <<123>>, <<98>>, <<58>>, <<67>>, <<125>>, <<35, 120, 10>>,
      <<123>>, <<99>>, <<125>>>>,
    \* subscription a{b}{...@c{d}}
    <<<<115, 117, 98, 115, 99, 114, 105, 112, 116, 105, 111, 110>>, <<32,
      97>>, <<123>>, <<98>>, <<125>>, <<123>>, <<46, 46, 46>>, <<64, 99>>,
      <<123>>, <<100>>, <<125>>, <<125>>>>,
    \* query($a:b=$c){d}
    <<<<113, 117, 101, 114, 121>>, <<40>>, <<36, 97>>, <<58>>, <<98>>,
      <<61>>, <<36, 99>>, <<41>>, <<123>>, <<100>>, <<125>>>>,
    \* query($a:b={c:[$d]}){e}
    <<<<113, 117, 101, 114, 121>>, <<40>>, <<36, 97>>, <<58>>, <<98>>,
      <<61>>, <<123>>, <<99>>, <<58>>, <<91>>, <<36, 100>>, <<93>>, <<125>>,
      <<41>>, <<123>>, <<101>>, <<125>>>>,
    \* {a(b:null)}
    <<<<123>>, <<97>>, <<40>>, <<98>>, <<58>>, <<110, 117, 108, 108>>,
      <<41>>, <<125>>>>,
    \* {a(b:"\q")}
    <<<<123>>, <<97>>, <<40>>, <<98>>, <<58>>, <<34, 92, 113, 34>>, <<41>>, <<125>>>>,
    \* {a}<U+FFFD>{c}
    <<<<123>>, <<97>>, <<125>>, <<65533>>, <<123>>, <<99>>, <<125>>>>,
    \*  ,#x\n\t{a} 
    <<<<32>>, <<44>>, <<35, 120, 10>>, <<9>>, <<123>>, <<97>>, <<125>>, <<32>>>>
  >>

\* Bounds.
MaxCut == 1
MaxToks == 3
MaxFailAt == 2

\* The document d without the pieces i .. j.
Without(d, i, j) == SubSeq(d, 1, i - 1) \o SubSeq(d, j + 1, Len(d))

\* Every document of the corpus, whole, cut short after any piece, and with
\* up to MaxCut consecutive pieces left out.
CorpusSources ==
  UNION {{Flatten(SubSeq(Corpus[n], 1, i)) : i \in 0..Len(Corpus[n])}
         \cup {Flatten(Without(Corpus[n], i, i + c - 1)) :
                 i \in 1..Len(Corpus[n]), c \in 1..MaxCut}
         : n \in 1..Len(Corpus)}

\* Every sequence of up to MaxToks of the lexemes { } a ( ) : $ 1 ... on,
\* each followed by a space.
Lexemes == {<<123, 32>>, <<125, 32>>, <<97, 32>>, <<40, 32>>, <<41, 32>>,
            <<58, 32>>, <<36, 32>>, <<49, 32>>, <<46, 46, 46, 32>>,
            <<111, 110, 32>>}
ShortSources == {Flatten(ls) : ls \in SeqsUpTo(Lexemes, MaxToks)}

ParseSources == CorpusSources \cup ShortSources

(***************************************************************************)
(* The texts the single parsing methods are called on.                     *)
(***************************************************************************)
\* Bracketed lists: an optional head of a type definition, an optional
\* opening bracket, up to MaxItems elements, an optional closing bracket.
MaxItems == 2

\* "enum A", "type A", "interface A", "input A"
TypeHeads ==
  {<<101, 110, 117, 109, 32, 65>>, <<116, 121, 112, 101, 32, 65>>,
   <<105, 110, 116, 101, 114, 102, 97, 99, 101, 32, 65>>,
   <<105, 110, 112, 117, 116, 32, 65>>}

\* nothing ( { [
ListOpens ==
  {<<>>, <<40>>, <<123>>, <<91>>}

\* The bracket that closes the opening bracket o: ) } ], and ) for none.
closing(o) ==
  CASE o = <<123>> -> <<125>>
    [] o = <<91>> -> <<93>>
    [] OTHER -> <<41>>

\* "a ", "a:b ", "$a:b "
ListItems ==
  {<<97, 32>>, <<97, 58, 98, 32>>, <<36, 97, 58, 98, 32>>}

ListSources ==
  {o \o Flatten(is) \o (IF closed THEN closing(o) ELSE <<>>) :
     o \in ListOpens, is \in SeqsUpTo(ListItems, MaxItems), closed \in BOOLEAN}

TypeSources ==
  {h \o o \o Flatten(is) \o (IF closed THEN closing(o) ELSE <<>>) :
     h \in TypeHeads, o \in {<<>>, <<123>>},
     is \in SeqsUpTo(ListItems, MaxItems), closed \in BOOLEAN}

\* Fragments: a head, a name, a type condition, up to MaxDirs directives
\* and a selection set, each of which may be missing.
MaxDirs == 1

\* nothing, "...", "fragment "
FragHeads ==
  {<<>>, <<46, 46, 46>>, <<102, 114, 97, 103, 109, 101, 110, 116, 32>>}

\* nothing, "a ", "on ", "\"on\" "
FragNames ==
  {<<>>, <<97, 32>>, <<111, 110, 32>>, <<34, 111, 110, 34, 32>>}

\* nothing, "on ", "on T "
FragConds ==
  {<<>>, <<111, 110, 32>>, <<111, 110, 32, 84, 32>>}

\* "@d ", "@d(a:1) "
FragDirs ==
  {<<64, 100, 32>>, <<64, 100, 40, 97, 58, 49, 41, 32>>}

\* nothing, "{b}", "{}"
FragBodies ==
  {<<>>, <<123, 98, 125>>, <<123, 125>>}

FragmentSources ==
  {h \o n \o t \o Flatten(ds) \o b :
     h \in FragHeads, n \in FragNames, t \in FragConds,
     ds \in SeqsUpTo(FragDirs, MaxDirs), b \in FragBodies}

\* Values: an optional head of a variable definition or of an input value
\* definition, then a value nested in lists and objects up to MaxDepth.
MaxDepth == 2

\* nothing, "$a:b=", "a:b="
ValueHeads ==
  {<<>>, <<36, 97, 58, 98, 61>>, <<97, 58, 98, 61>>}

\* nothing, "true ", "false ", "null ", "e ", "$v ", "1 "
ValueAtoms ==
  {<<>>, <<116, 114, 117, 101, 32>>, <<102, 97, 108, 115, 101, 32>>,
   <<110, 117, 108, 108, 32>>, <<101, 32>>, <<36, 118, 32>>, <<49, 32>>}

\* The values nested at most depth deep: [v] and {c:v}.
RECURSIVE Values(_)
Values(depth) ==
  IF depth = 0 THEN ValueAtoms
  ELSE ValueAtoms
       \cup {<<91>> \o v \o <<93>> : v \in Values(depth - 1)}
       \cup {<<123, 99, 58>> \o v \o <<125>> : v \in Values(depth - 1)}

ValueSources == {h \o v : h \in ValueHeads, v \in Values(MaxDepth)}

\* Fields: a, a b, a:b, a:b c, a : b(c:1)@d{e}, a:b:c, a: a:1 a:{b} a:$b
\* a::b :a "a":b
FieldSources ==
  {<<97>>, <<97, 32, 98>>, <<97, 58, 98>>, <<97, 58, 98, 32, 99>>,
   <<97, 32, 58, 32, 98, 40, 99, 58, 49, 41, 64, 100, 123, 101, 125>>,
   <<97, 58, 98, 58, 99>>, <<97, 58>>, <<97, 58, 49>>,
   <<97, 58, 123, 98, 125>>, <<97, 58, 36, 98>>, <<97, 58, 58, 98>>,
   <<58, 97>>, <<34, 97, 34, 58, 98>>}

\* type A "implements" B{c:D}
\* type A "implements"{c:D}
\* type A implements B{c:D}
\* type A "x" B{c:D}
\* fragment a "on" B{c}
\* ..."on" T{b}
\* ...on T{b}
KeywordSources ==
  {<<116, 121, 112, 101, 32, 65, 32, 34, 105, 109, 112, 108, 101, 109, 101,
        110, 116, 115, 34, 32, 66, 123, 99, 58, 68, 125>>,
   <<116, 121, 112, 101, 32, 65, 32, 34, 105, 109, 112, 108, 101, 109, 101,
        110, 116, 115, 34, 123, 99, 58, 68, 125>>,
   <<116, 121, 112, 101, 32, 65, 32, 105, 109, 112, 108, 101, 109, 101,
        110, 116, 115, 32, 66, 123, 99, 58, 68, 125>>,
   <<116, 121, 112, 101, 32, 65, 32, 34, 120, 34, 32, 66, 123, 99, 58, 68,
        125>>,
   <<102, 114, 97, 103, 109, 101, 110, 116, 32, 97, 32, 34, 111, 110, 34,
        32, 66, 123, 99, 125>>,
   <<46, 46, 46, 34, 111, 110, 34, 32, 84, 123, 98, 125>>,
   <<46, 46, 46, 111, 110, 32, 84, 123, 98, 125>>}

RuleSources ==
  ListSources \cup TypeSources \cup FragmentSources \cup ValueSources
  \cup FieldSources \cup KeywordSources

\* The parsing methods that are called on them.
Rules ==
  {"parseVarDefs", "parseArguments", "parseArgumentsDef", "parseSelectionSet",
   "parseEnumTypeDef", "parseList", "parseObject", "parseObjTypeDef",
   "parseInterfaceTypeDef", "parseInputObjTypeDef", "parseFragment",
   "parseFragmentDef", "parseVarDef", "parseInputValueDef",
   "parseValueLiteral", "parseConstValueLiteral", "parseDefinition",
   "manyVarDef", "manyArgument", "manyInputValueDef", "parseField"}

\* The texts of the parses that run side by side: up to MaxDefs of the
\* pieces "{a}", "type d{e:f}" and "$".
MaxDefs == 2
DefTexts ==
  {<<123, 97, 125>>,
   <<116, 121, 112, 101, 32, 100, 123, 101, 58, 102, 125>>,
   <<36>>}
TwoSources == {Flatten(ds) : ds \in SeqsUpTo(DefTexts, MaxDefs)}

\* source: the source text
\* lexer: the Lexer under test, NilNode before NewLexer has returned
\* toks: the results [t, err] of the calls of lexer.Lex so far
\* result: what ParseString or ParseReader returned, NilNode before
\* parses: the parses that run side by side, <<>> when there are none
\* printed: what Fprint wrote and returned and what became of the text,
\*   NilNode before Fprint is called
\* advances: the number of calls of lexer.advance made on the Lexer since
\*   NewLexer returned it
\* other: a second Lexer, on the source with ignored characters inserted,
\*   and the results of its calls of Lex; NilNode when there is none
VARIABLES source, lexer, toks, result, parses, printed, advances, other

vars == <<source, lexer, toks, result, parses, printed, advances, other>>

\* l, err := NewStringLexer(source)
CallNewStringLexer ==
  /\ lexer = NilNode
  /\ result = NilNode
  /\ lexer' = NewStringLexer(source).l
  /\ UNCHANGED <<source, toks, result, parses, printed, advances, other>>

\* l, err := NewReaderLexer(strings.NewReader(source))
CallNewReaderLexer ==
  /\ lexer = NilNode
  /\ result = NilNode
  /\ lexer' = NewReaderLexer(source, 0 - 1).l
  /\ UNCHANGED <<source, toks, result, parses, printed, advances, other>>

\* var t Token; err := l.Lex(&t)
CallLex ==
  /\ lexer # NilNode
  /\ Len(toks) < MaxLex
  /\ LET x == Call("Lex", <<lexer, Token0>>) IN
       /\ lexer' = x.l
       /\ toks' = Append(toks, [t |-> x.t, err |-> x.err])
  /\ UNCHANGED <<source, result, parses, printed, advances, other>>

LexInit ==
  /\ source \in LexSources
  /\ lexer = NilNode
  /\ toks = <<>>
  /\ result = NilNode
  /\ parses = <<>>
  /\ printed = NilNode
  /\ advances = 0
  /\ other = NilNode

LexNext == CallNewStringLexer \/ CallNewReaderLexer \/ CallLex

LexSpec == LexInit /\ [][LexNext]_vars

\* ParseString(source) and ParseReader(r): result holds the Document, the
\* error and the calls made of the lexer function.
CallParseString ==
  /\ lexer = NilNode /\ result = NilNode
  /\ LET x == ParseString(source) IN
     result' = [via |-> "string", doc |-> x.v, err |-> x.err, log |-> x.p.log,
                turns |-> x.p.turns]
  /\ UNCHANGED <<source, lexer, toks, parses, printed, advances, other>>

\* failAt is the byte offset at which reading r fails, -1 when it does not.
CallParseReader ==
  /\ lexer = NilNode /\ result = NilNode
  /\ \E failAt \in (0 - 1)..MaxFailAt :
       LET x == ParseReader(source, failAt) IN
       result' = [via |-> "reader", doc |-> x.v, err |-> x.err,
                  log |-> x.p.log, turns |-> x.p.turns]
  /\ UNCHANGED <<source, lexer, toks, parses, printed, advances, other>>

Init ==
  /\ source \in ParseSources
  /\ lexer = NilNode /\ toks = <<>> /\ result = NilNode
  /\ parses = <<>>
  /\ printed = NilNode
  /\ advances = 0
  /\ other = NilNode

Next == CallParseString \/ CallParseReader

Spec == Init /\ [][Next]_vars

\* p, err := newStringParser(source), then one parsing method of p: result
\* holds what the method returned and the parser it left: the calls made of
\* the lexer function, the last token, and the number of calls that any and
\* many made of their element function.
CallRule ==
  /\ lexer = NilNode /\ result = NilNode
  /\ \E rule \in Rules :
       LET x == Call("parseRuleOn", <<rule, source>>) IN
       result' = [via |-> rule, doc |-> x.v, err |-> x.err, log |-> x.p.log,
                  last |-> x.p.last, calls |-> x.p.calls,
                  turns |-> x.p.turns]
  /\ UNCHANGED <<source, lexer, toks, parses, printed, advances, other>>

RuleInit ==
  /\ source \in RuleSources
  /\ lexer = NilNode
  /\ toks = <<>>
  /\ result = NilNode
  /\ parses = <<>>
  /\ printed = NilNode
  /\ advances = 0
  /\ other = NilNode

RuleNext == CallRule

RuleSpec == RuleInit /\ [][RuleNext]_vars

NewLexerStep(i) ==
  /\ parses # <<>> /\ parses[i].at = "start"
  /\ \E via \in {"string", "reader"} : parses' = Call("newLexerStep", <<parses, i, via>>)
  /\ UNCHANGED <<source, lexer, toks, result, printed, advances, other>>

NewParserStep(i) ==
  /\ parses # <<>> /\ parses[i].at = "lexer"
  /\ parses' = Call("newParserStep", <<parses, i>>)
  /\ UNCHANGED <<source, lexer, toks, result, printed, advances, other>>

ParseDefinitionStep(i) ==
  /\ parses # <<>> /\ parses[i].at = "parser"
  /\ parses' = Call("parseDefinitionStep", <<parses, i>>)
  /\ UNCHANGED <<source, lexer, toks, result, printed, advances, other>>

TwoInit ==
  /\ source = <<>>
  /\ lexer = NilNode
  /\ toks = <<>>
  /\ result = NilNode
  /\ \E s1 \in TwoSources, s2 \in TwoSources :
       parses = <<Parse0(s1), Parse0(s2)>>
  /\ printed = NilNode
  /\ advances = 0
  /\ other = NilNode

TwoNext ==
  \E i \in 1..2 : NewLexerStep(i) \/ NewParserStep(i) \/ ParseDefinitionStep(i)

TwoSpec == TwoInit /\ [][TwoNext]_vars

(***************************************************************************)
(* Properties of the lexer.                                                *)
(***************************************************************************)
\* The results of n successive calls of Lex on the lexer l.
RECURSIVE LexLog(_, _)
LexLog(l, n) ==
  IF n = 0 THEN <<>>
  ELSE LET x == Lex(l, Token0) IN
       <<[t |-> x.t, err |-> x.err]>> \o LexLog(x.l, n - 1)

isBuffered == lexer # NilNode /\ lexer.scanner.impl = "buffered"

\* C2: a lexer backed by the stream scanner produces exactly the tokens
\* (Kind, Start, End, Value) and the errors that a lexer backed by the string
\* scanner produces for the same source text.
C2_StreamLexesAsString ==
  isBuffered =>
    LET ref == LexLog(NewStringLexer(source).l, Len(toks)) IN
    \A i \in 1..Len(toks) :
      /\ toks[i].err.type = ref[i].err.type
      /\ toks[i].err.Pos = ref[i].err.Pos
      /\ toks[i].err.msg = ref[i].err.msg
      /\ toks[i].err = NoErr => toks[i].t = ref[i].t

\* The digits 0..9.
IsDigitRune(r) == r >= 48 /\ r <= 57

\* The rune of the source at 0-based offset i, -1 at the end of the input.
At0(i) == IF i < Len(source) THEN source[i + 1] ELSE 0 - 1

\* The offset after the run of digits that starts at offset i.
RECURSIVE AfterDigits(_)
AfterDigits(i) == IF IsDigitRune(At0(i)) THEN AfterDigits(i + 1) ELSE i

\* The number grammar -?(0|[1-9][0-9]*)(\.[0-9]+)?((E|e)(+|-)?[0-9]+)? read
\* from offset 0 of the source: the offset at which a required run of digits
\* is empty, -1 when there is none or when the integer part breaks the
\* rule of the leading zero first.
EmptyDigitRun ==
  LET i0 == IF At0(0) = 45 THEN 1 ELSE 0
      i1 == IF At0(i0) = 48 THEN i0 + 1 ELSE AfterDigits(i0)
      i2 == IF At0(i1) = 46 THEN AfterDigits(i1 + 1) ELSE i1
      i3 == IF At0(i2) \in {69, 101}
            THEN IF At0(i2 + 1) \in {43, 45} THEN i2 + 2 ELSE i2 + 1
            ELSE i2
  IN IF ~IsDigitRune(At0(i0)) THEN i0
     ELSE IF At0(i0) = 48 /\ (IsDigitRune(At0(i1)) \/ At0(i1) = 0 - 1)
       THEN 0 - 1
     ELSE IF At0(i1) = 46 /\ ~IsDigitRune(At0(i1 + 1)) THEN i1 + 1
     ELSE IF At0(i2) \in {69, 101} /\ ~IsDigitRune(At0(i3)) THEN i3
     ELSE 0 - 1

\* C6: when the source starts with a number in which a required run of
\* digits is empty (after the sign, after '.', after the exponent marker and
\* its optional sign), Lex returns a SyntaxError at that offset.
C6_EmptyDigitRunRejected ==
  (/\ Len(toks) >= 1
   /\ At0(0) = 45 \/ IsDigitRune(At0(0))
   /\ EmptyDigitRun >= 0)
  => /\ toks[1].err.type = "SyntaxError"
     /\ toks[1].err.Pos = EmptyDigitRun

\* C7: every number token returned without error has Start <= End, Value
\* equal to the source text from Start to End, and Kind Int exactly when the
\* text has neither '.' nor an exponent marker.
C7_NumberValueIsSourceText ==
  \A i \in 1..Len(toks) :
    (toks[i].err = NoErr /\ toks[i].t.Kind \in {IntKind, Float})
    => LET t == toks[i].t IN
       /\ t.Start <= t.End
       /\ t.End < Len(source)
       /\ t.Value = SubSeq(source, t.Start + 1, t.End + 1)
       /\ (t.Kind = IntKind)
            <=> (\A j \in 1..Len(t.Value) : t.Value[j] \notin {46, 69, 101})

\* The text that the body s of a well-formed string literal denotes.
RECURSIVE Decoded(_)
Decoded(s) ==
  IF s = <<>> THEN <<>>
  ELSE IF Head(s) # 92
    THEN <<(IF Head(s) = BadByte THEN RuneError ELSE Head(s))>>
         \o Decoded(Tail(s))
  ELSE IF s[2] = 117
    THEN <<fromHexChar(s[3]) * 4096 + fromHexChar(s[4]) * 256
           + fromHexChar(s[5]) * 16 + fromHexChar(s[6])>>
         \o Decoded(SubSeq(s, 7, Len(s)))
  ELSE <<(CASE s[2] = 98 -> 8 [] s[2] = 102 -> 12 [] s[2] = 110 -> 10
            [] s[2] = 114 -> 13 [] s[2] = 116 -> 9 [] OTHER -> s[2])>>
       \o Decoded(SubSeq(s, 3, Len(s)))

\* C8: a string token starts at the opening quote and ends at the closing
\* quote, and its Value is the text between them with every escape replaced
\* by the character it denotes and \uXXXX by the code point XXXX.
C8_StringValueIsDecodedText ==
  \A i \in 1..Len(toks) :
    (toks[i].err = NoErr /\ toks[i].t.Kind = String)
    => LET t == toks[i].t IN
       /\ t.Start < t.End
       /\ t.End < Len(source)
       /\ source[t.Start + 1] = 34
       /\ source[t.End + 1] = 34
       /\ t.Value = Decoded(SubSeq(source, t.Start + 2, t.End))

\* The offset of the first offending input of the string literal whose body
\* starts at offset i, -1 when the literal is well formed.
RECURSIVE FirstOffending(_)
FirstOffending(i) ==
  LET r == At0(i) IN
  IF r = 0 - 1 \/ r = LF \/ r = CR THEN i
  ELSE IF r = 34 THEN 0 - 1
  ELSE IF r # BadByte /\ r < SPACE /\ r # TAB THEN i
  ELSE IF r # 92 THEN FirstOffending(i + 1)
  ELSE IF At0(i + 1) \in {34, 47, 92, 98, 102, 110, 114, 116}
    THEN FirstOffending(i + 2)
  ELSE IF At0(i + 1) # 117 THEN i + 1
  ELSE IF \E k \in 2..5 : At0(i + k) = 0 - 1 THEN Len(source)
  ELSE IF \E k \in 2..5 : fromHexChar(At0(i + k)) < 0 THEN i + 5
  ELSE FirstOffending(i + 6)

\* C9: a malformed string literal at the start of the source fails with a
\* SyntaxError positioned at its first offending input.
C9_StringErrorAtOffendingInput ==
  (/\ Len(toks) >= 1
   /\ At0(0) = 34
   /\ FirstOffending(1) >= 0)
  => /\ toks[1].err.type = "SyntaxError"
     /\ toks[1].err.Pos = FirstOffending(1)

\* C10: after Lex has returned a SyntaxError, every later call of Lex on the
\* same lexer fails as well.
C10_NoTokenAfterSyntaxError ==
  \A i \in 1..Len(toks) : \A j \in 1..Len(toks) :
    (i < j /\ toks[i].err.type = "SyntaxError") => toks[j].err # NoErr

(***************************************************************************)
(* Properties of the parser.                                               *)
(***************************************************************************)
\* The nodes held by the fields of the node n, NilNode for an absent one.
Kids(n) ==
  CASE n.kind = "Document" -> n.Definitions
    [] n.kind = "OpDef" ->
         <<n.Name>> \o n.VarDefs \o n.Directives \o <<n.SelectionSet>>
    [] n.kind = "FragmentDef" ->
         <<n.Name, n.TypeCondition>> \o n.Directives \o <<n.SelectionSet>>
    [] n.kind \in {"VarDef"} -> <<n.Variable, n.RefType, n.DefaultValue>>
    [] n.kind = "Variable" -> <<n.Name>>
    [] n.kind = "SelectionSet" -> n.Selections
    [] n.kind = "Field" ->
         <<n.Alias, n.Name>> \o n.Arguments \o n.Directives
         \o <<n.SelectionSet>>
    [] n.kind \in {"Argument", "ObjectField"} -> <<n.Name, n.Value>>
    [] n.kind = "FragmentSpread" -> <<n.Name>> \o n.Directives
    [] n.kind = "InlineFragment" ->
         <<n.NamedType>> \o n.Directives \o <<n.SelectionSet>>
    [] n.kind = "List" -> n.Values
    [] n.kind = "Object" -> n.Fields
    [] n.kind = "Directive" -> <<n.Name>> \o n.Arguments
    [] n.kind \in {"ListType", "NonNullType"} -> <<n.RefType>>
    [] n.kind \in {"ObjTypeDef", "TypeExtDef"} ->
         <<n.Name>> \o n.Interfaces \o n.FieldDefs
    [] n.kind = "FieldDef" -> <<n.Name>> \o n.Arguments \o <<n.RefType>>
    [] n.kind = "InputValueDef" -> <<n.Name, n.RefType, n.DefaultValue>>
    [] n.kind = "InterfaceTypeDef" -> <<n.Name>> \o n.FieldDefs
    [] n.kind = "UnionTypeDef" -> <<n.Name>> \o n.NamedTypes
    [] n.kind = "ScalarTypeDef" -> <<n.Name>>
    [] n.kind = "EnumTypeDef" -> <<n.Name>> \o n.EnumValueDefs
    [] n.kind = "InputObjTypeDef" -> <<n.Name>> \o n.Fields
    [] OTHER -> <<>>

\* Every node of the tree n has 0 <= Start <= End <= max.
RECURSIVE SpansWithin(_, _)
SpansWithin(n, max) ==
  \/ n = NilNode
  \/ /\ 0 <= n.Start /\ n.Start <= n.End /\ n.End <= max
     /\ \A i \in 1..Len(Kids(n)) : SpansWithin(Kids(n)[i], max)

\* Some node of the tree n is of kind k and does not start at offset 0.
RECURSIVE HasKind(_, _)
HasKind(n, k) ==
  /\ n # NilNode
  /\ \/ n.kind = k /\ n.Start > 0
     \/ \E i \in 1..Len(Kids(n)) : HasKind(Kids(n)[i], k)

Returned == result # NilNode
Succeeded == Returned /\ result.err = NoErr
Failed == Returned /\ result.err # NoErr

\* C1: every node of a Document that ParseString returns has
\* 0 <= Start <= End <= the number of runes of the source.
C1_NodeSpansWithinSource ==
  (Succeeded /\ result.via = "string")
  => /\ result.doc # NilNode
     /\ SpansWithin(result.doc, Len(source))

C1_Witness ==
  /\ Succeeded /\ result.via = "string"
  /\ result.doc.End = Len(source)
  /\ HasKind(result.doc, "NonNullType")
  /\ HasKind(result.doc, "List")

\* C3: every error that ParseString returns is a SyntaxError whose position
\* is a rune offset of the source.
C3_ErrorsAreSyntaxErrors ==
  (Failed /\ result.via = "string")
  => /\ result.err.type = "SyntaxError"
     /\ 0 <= result.err.Pos /\ result.err.Pos <= Len(source)

\* The last call of the lexer function that the parser made.
LastCall == result.log[Len(result.log)]

\* C4: when ParseString or ParseReader returns an error the Document is nil,
\* no call of the lexer function before the last one had failed, and the
\* last one either returned that error or returned the token at which the
\* grammar rule failed: no token was requested after the failure.
C4_FirstErrorAborts ==
  Failed
  => /\ result.doc = NilNode
     /\ \A i \in 1..(Len(result.log) - 1) : result.log[i].err = NoErr
     /\ result.log = <<>> => result.err.type \in {"io", "io.EOF"}
     /\ result.log # <<>> =>
          IF LastCall.err # NoErr THEN result.err = LastCall.err
          ELSE /\ result.err.type \in {"SyntaxError", "error"}
               /\ result.err.type = "SyntaxError"
                    => result.err.Pos = LastCall.t.Start
               /\ result.err.type = "error" => LastCall.t.Kind = Dollar
               /\ \A i \in 1..(Len(result.log) - 1) :
                    result.log[i].t.Kind # EOF

\* A grammar rule failed at a token that is not the end of the source, after
\* the parser had consumed several tokens.
C4_Witness ==
  /\ Failed
  /\ Len(result.log) >= 4
  /\ LastCall.err = NoErr
  /\ LastCall.t.Kind # EOF
  /\ LastCall.t.End + 1 < Len(source)

\* The source holds nothing but ignored characters and comments.
RECURSIVE IgnoredFrom(_, _)
IgnoredFrom(i, inComment) ==
  \/ i > Len(source)
  \/ /\ inComment
     /\ source[i] \notin {BadByte, RuneError}
     /\ source[i] = TAB \/ source[i] >= SPACE \/ source[i] \in {LF, CR}
     /\ IgnoredFrom(i + 1, source[i] \notin {LF, CR})
  \/ /\ ~inComment
     /\ source[i] \in {BOM, TAB, SPACE, LF, CR, COMMA, 35}
     /\ IgnoredFrom(i + 1, source[i] = 35)

\* C5: a Document that ParseString returns has one or more definitions, in
\* source order; every token the lexer delivered before EOF lies within one
\* of them and the lexer reached EOF; a source of ignored characters only
\* fails with a SyntaxError.
C5_DefinitionsThenEOF ==
  (Returned /\ result.via = "string")
  => /\ result.doc # NilNode =>
          LET defs == result.doc.Definitions
              n == Len(result.log)
          IN /\ Len(defs) >= 1
             /\ \A i \in 1..(Len(defs) - 1) : defs[i].End <= defs[i + 1].Start
             /\ n >= 3
             /\ result.log[n].t.Kind = EOF
             /\ result.log[n - 1].t.Kind = EOF
             /\ \A i \in 1..(n - 2) :
                  /\ result.log[i].t.Kind # EOF
                  /\ \E d \in 1..Len(defs) :
                       /\ defs[d].Start <= result.log[i].t.Start
                       /\ result.log[i].t.End <= defs[d].End
     /\ IgnoredFrom(1, FALSE) =>
          /\ result.doc = NilNode
          /\ result.err.type = "SyntaxError"

C5_Witness ==
  /\ Succeeded /\ result.via = "string"
  /\ Len(result.doc.Definitions) >= 2
  /\ result.doc.Definitions[1].kind # result.doc.Definitions[2].kind

\* ParseString failed on a source of ignored characters only.
C5_WitnessIgnored ==
  /\ Failed /\ result.via = "string"
  /\ Len(source) >= 3 /\ IgnoredFrom(1, FALSE)


(***************************************************************************)
(* Properties of the single parsing methods (RuleSpec).                    *)
(***************************************************************************)
Called == result # NilNode /\ result.via \in Rules

\* The lists parsed with many and the lists parsed with any.
ManyRules ==
  {"parseVarDefs", "parseArguments", "parseArgumentsDef", "parseSelectionSet",
   "parseEnumTypeDef", "manyVarDef", "manyArgument", "manyInputValueDef"}
AnyRules ==
  {"parseList", "parseObject", "parseObjTypeDef", "parseInterfaceTypeDef",
   "parseInputObjTypeDef"}

\* The methods that look for the opening bracket before they call many.
OptionalRules == {"parseVarDefs", "parseArguments", "parseArgumentsDef"}

\* The brackets of the list of a method.
opening(rule) ==
  CASE rule \in {"parseVarDefs", "parseArguments", "parseArgumentsDef",
                 "manyVarDef", "manyArgument", "manyInputValueDef"} -> ParenL
    [] rule = "parseList" -> BracketL
    [] OTHER -> BraceL
closer(rule) ==
  CASE opening(rule) = ParenL -> ParenR
    [] opening(rule) = BracketL -> BracketR
    [] OTHER -> BraceR

\* The keyword a type definition starts with, <<>> for the other methods.
keyword(rule) ==
  CASE rule = "parseEnumTypeDef" -> Lit("enum")
    [] rule = "parseObjTypeDef" -> Lit("type")
    [] rule = "parseInterfaceTypeDef" -> Lit("interface")
    [] rule = "parseInputObjTypeDef" -> Lit("input")
    [] OTHER -> <<>>

\* The index in result.log of the token at which the list of the method
\* begins, 0 when the method did not get there: a type definition reads
\* its keyword and its name first, and an implements clause when the Value
\* of the next token is "implements".
listAt ==
  LET log == result.log IN
  IF keyword(result.via) = <<>>
  THEN IF Len(log) >= 1 /\ log[1].err = NoErr THEN 1 ELSE 0
  ELSE IF /\ Len(log) >= 3
          /\ \A i \in 1..3 : log[i].err = NoErr
          /\ log[1].t.Kind = Name /\ log[1].t.Value = keyword(result.via)
          /\ log[2].t.Kind = Name
          /\ log[3].t.Value # Lit("implements")
       THEN 3 ELSE 0

\* The list is entered and the next token closes it.
ClosedAtOnce ==
  /\ Called /\ result.via \in ManyRules \cup AnyRules
  /\ listAt > 0
  /\ result.log[listAt].t.Kind = opening(result.via)
  /\ Len(result.log) > listAt
  /\ result.log[listAt + 1].err = NoErr
  /\ result.log[listAt + 1].t.Kind = closer(result.via)

\* many or any is called at a token that is not the opening bracket.
NotOpened ==
  /\ Called /\ result.via \in (ManyRules \cup AnyRules) \ OptionalRules
  /\ listAt > 0
  /\ result.log[listAt].t.Kind # opening(result.via)

\* The elements of the list a method returned.
elements(v) ==
  CASE v.kind = "List" -> v.Values
    [] v.kind = "Object" -> v.Fields
    [] v.kind = "InputObjTypeDef" -> v.Fields
    [] v.kind \in {"ObjTypeDef", "InterfaceTypeDef"} -> v.FieldDefs

C11_WitnessEnum ==
  ClosedAtOnce /\ result.via = "parseEnumTypeDef" /\ result.err # NoErr
C11_WitnessEmptyBody ==
  ClosedAtOnce /\ result.via = "parseInputObjTypeDef" /\ result.err = NoErr
C11_WitnessNotOpened ==
  NotOpened /\ result.via = "manyVarDef" /\ Len(source) > 0


\* parseFragment returned no error: the first token was '...'.
FragmentParsed ==
  /\ Called /\ result.via = "parseFragment"
  /\ result.err = NoErr

\* C12: when parseFragment succeeds the node starts at the '...' token; if
\* the token after '...' is a Name other than "on" the node is a
\* FragmentSpread with that name and a list of directives; otherwise it is
\* an InlineFragment with a non-empty selection set, whose NamedType is the
\* name after the Name "on" when the token after '...' is that Name, and is
\* absent when it is not.
C12_FragmentForms ==
  FragmentParsed =>
    LET f == result.doc
        t == result.log[2].t
    IN /\ result.log[1].t.Kind = Spread
       /\ f.Start = result.log[1].t.Start
       /\ IF t.Kind = Name /\ t.Value # Lit("on")
          THEN /\ f.kind = "FragmentSpread"
               /\ f.Name.Value = t.Value
               /\ f.Name.Start = t.Start /\ f.Name.End = t.End
               /\ \A i \in 1..Len(f.Directives) :
                    f.Directives[i].kind = "Directive"
          ELSE /\ f.kind = "InlineFragment"
               /\ f.SelectionSet.Selections # <<>>
               /\ \A i \in 1..Len(f.Directives) :
                    f.Directives[i].kind = "Directive"
               /\ IF t.Kind = Name
                  THEN /\ f.NamedType.Value = result.log[3].t.Value
                       /\ f.NamedType.Start = result.log[3].t.Start
                       /\ f.NamedType.End = result.log[3].t.End
                  ELSE f.NamedType = NamedType0


\* A fragment definition is parsed and the token after the keyword
\* fragment is the Name on.
FragmentNamedOn ==
  /\ Called /\ result.via \in {"parseFragmentDef", "parseDefinition"}
  /\ Len(result.log) >= 2
  /\ result.log[1].t.Kind = Name /\ result.log[1].t.Value = Lit("fragment")
  /\ result.log[2].err = NoErr
  /\ result.log[2].t.Kind = Name /\ result.log[2].t.Value = Lit("on")

\* C13: a fragment definition with the Name on where its name belongs
\* fails with a SyntaxError that wraps UnexpectedOn, at the start of that
\* token, and no other call returns an error that wraps UnexpectedOn.
C13_UnexpectedOnOnlyForFragmentNamedOn ==
  /\ FragmentNamedOn =>
       /\ result.err.type = "SyntaxError"
       /\ result.err.msg = "UnexpectedOn"
       /\ result.err.Pos = result.log[2].t.Start
  /\ Called /\ result.err.msg = "UnexpectedOn" => FragmentNamedOn


\* The methods that parse a constant value, and the index in result.log of
\* its first token (0 when the text has none): the token after the first
\* '=' of a variable definition or input value definition.
ConstRules == {"parseVarDef", "parseInputValueDef", "parseConstValueLiteral"}
constFrom ==
  IF result.via = "parseConstValueLiteral" THEN 1
  ELSE LET eq == {i \in 1..Len(result.log) : result.log[i].t.Kind = Equals}
       IN IF eq = {} THEN 0
          ELSE 1 + CHOOSE i \in eq : \A j \in eq : i <= j

\* Some node of the tree n is of kind k.
RECURSIVE Contains(_, _)
Contains(n, k) ==
  /\ n # NilNode
  /\ \/ n.kind = k
     \/ \E i \in 1..Len(Kids(n)) : Contains(Kids(n)[i], k)

\* The constant value that the method returned.
constValue ==
  IF result.via = "parseConstValueLiteral" THEN result.doc
  ELSE result.doc.DefaultValue

\* C14: a constant value (the value parseValueLiteral(true) returns, the
\* default value of a variable definition and of an input value definition)
\* that was parsed without error contains no Variable node at any depth, and
\* none of its tokens is a '$': a '$' in it makes the call fail.
C14_ConstValueHasNoVariable ==
  Called /\ result.via \in ConstRules /\ result.err = NoErr =>
    /\ ~Contains(constValue, "Variable")
    /\ constFrom > 0 =>
         \A i \in constFrom..(Len(result.log) - 1) :
           result.log[i].t.Kind # Dollar

\* The default value of a variable definition held a '$' inside a list or
\* an object, and the call failed at it.
C14_Witness ==
  /\ Called /\ result.via = "parseVarDef"
  /\ constFrom > 0 /\ Len(result.log) > constFrom
  /\ result.log[constFrom].t.Kind \in {BracketL, BraceL}
  /\ result.last.Kind = Dollar
  /\ result.err # NoErr

\* A nested constant default value was accepted.
C14_WitnessAccepted ==
  /\ Called /\ result.via = "parseInputValueDef" /\ result.err = NoErr
  /\ result.doc.DefaultValue.kind = "Object"
  /\ result.doc.DefaultValue.Fields # <<>>
  /\ result.doc.DefaultValue.Fields[1].Value.kind = "List"


\* parseValueLiteral is called at a Name token.
NameValue ==
  /\ Called /\ result.via \in {"parseValueLiteral", "parseConstValueLiteral"}
  /\ result.log[1].err = NoErr
  /\ result.log[1].t.Kind = Name

\* C15: parseValueLiteral at a Name token returns a Boolean for true and
\* false (with that value) and an Enum with the name for every other name
\* but null, each with the Start and End of the token, unless reading the
\* token behind it fails; at the Name null it returns a SyntaxError at the
\* start of the token and reads no further token.
C15_NameValues ==
  NameValue =>
    LET t == result.log[1].t
        v == result.doc
    IN IF t.Value = Lit("null")
       THEN /\ result.err.type = "SyntaxError"
            /\ result.err.Pos = t.Start
            /\ Len(result.log) = 1
            /\ result.last = t
       ELSE /\ Len(result.log) = 2
            /\ result.err = result.log[2].err
            /\ result.err = NoErr =>
                 /\ v.Start = t.Start /\ v.End = t.End
                 /\ IF t.Value \in {Lit("true"), Lit("false")}
                    THEN v.kind = "Boolean" /\ v.Value = (t.Value = Lit("true"))
                    ELSE v.kind = "Enum" /\ v.Value = t.Value

\* null was refused where a constant value was expected.
C15_Witness ==
  /\ NameValue /\ result.via = "parseConstValueLiteral"
  /\ result.log[1].t.Value = Lit("null")
  /\ result.err.type = "SyntaxError"

\* false and an enum value were accepted.
C15_WitnessFalse ==
  NameValue /\ result.err = NoErr /\ result.log[1].t.Value = Lit("false")
C15_WitnessEnum ==
  NameValue /\ result.err = NoErr /\ result.doc.kind = "Enum"


(***************************************************************************)
(* Properties of two parses side by side (TwoSpec).                        *)
(***************************************************************************)
BothDone ==
  /\ parses # <<>>
  /\ parses[1].at = "done" /\ parses[2].at = "done"

C16_WitnessError ==
  /\ BothDone
  /\ parses[1].source = parses[2].source /\ parses[1].via = parses[2].via
  /\ parses[1].err.type = "SyntaxError" /\ parses[1].defs # <<>>
  /\ parses[2].err.type = "SyntaxError"

\* What the parse q returns when it runs alone: [p, err, v].
alone(q) ==
  IF q.via = "string" THEN ParseString(q.source)
  ELSE ParseReader(q.source, 0 - 1)

\* The parses that have returned returned what they return alone.
ReturnedAsAlone ==
  \A i \in 1..Len(parses) :
    parses[i].at = "done" =>
      /\ parses[i].doc = alone(parses[i]).v
      /\ parses[i].err = alone(parses[i]).err

\* A step of one parse leaves the other parse as it was.
StepsOfOneParse ==
  \A i \in 1..Len(parses) :
    parses'[i] # parses[i] => parses'[3 - i] = parses[3 - i]

Styles == {"Pretty", "Compact"}

\* The writers fail at their call of Write number 0..MaxRoom, or never.
MaxRoom == 2

\* The texts that are parsed and printed: the corpus and what is left of it.
PrintSources == CorpusSources

\* The node n and the nodes below it; an OpDef holds an OpType as well.
RECURSIVE Nodes(_)
Nodes(n) ==
  IF n = NilNode THEN {}
  ELSE {n}
       \cup (IF n.kind = "OpDef" THEN {[kind |-> "OpType", Op |-> n.Op]}
             ELSE {})
       \cup UNION {Nodes(Kids(n)[i]) : i \in 1..Len(Kids(n))}

\* err := s.Fprint(w, node) for a node of the Document
CallFprint ==
  /\ result # NilNode /\ result.err = NoErr
  /\ printed = NilNode
  /\ advances = 0
  /\ other = NilNode
  /\ \E s \in Styles, room \in (0 - 1)..MaxRoom, node \in Nodes(result.doc) :
       LET x == Call("Fprint", <<s, room, node>>) IN
       printed' = [Style |-> s, room |-> room, node |-> node, out |-> x.out,
                   err |-> x.err, back |-> NilNode, again |-> NilNode]
  /\ UNCHANGED <<source, lexer, toks, result, parses, advances, other>>

\* doc, err := ParseString(out) for the text of a Document
CallParsePrinted ==
  /\ printed # NilNode /\ printed.err = NoErr
  /\ printed.node.kind = "Document"
  /\ printed.back = NilNode
  /\ LET x == ParseString(printed.out) IN
     printed' = [printed EXCEPT !.back = [doc |-> x.v, err |-> x.err]]
  /\ UNCHANGED <<source, lexer, toks, result, parses, advances, other>>

\* err := s.Fprint(w, doc) for the Document parsed from the text, with a
\* writer that does not fail
CallFprintAgain ==
  /\ printed # NilNode /\ printed.back # NilNode
  /\ printed.back.err = NoErr
  /\ printed.again = NilNode
  /\ printed' = [printed EXCEPT
                   !.again = Call("Fprint",
                                  <<printed.Style, 0 - 1, printed.back.doc>>)]
  /\ UNCHANGED <<source, lexer, toks, result, parses, advances, other>>

PrintInit ==
  /\ source \in PrintSources
  /\ lexer = NilNode /\ toks = <<>> /\ result = NilNode
  /\ parses = <<>>
  /\ printed = NilNode
  /\ advances = 0
  /\ other = NilNode

PrintNext ==
  CallParseString \/ CallFprint \/ CallParsePrinted \/ CallFprintAgain

PrintSpec == PrintInit /\ [][PrintNext]_vars

\* A Document that ParseString returned has been printed whole, by a writer
\* that did not fail.
DocumentPrinted ==
  /\ printed # NilNode
  /\ printed.node = result.doc
  /\ printed.room = 0 - 1
  /\ printed.err = NoErr

\* C18: for every valid Document and both styles, the printed text of the
\* Document parses, and the Document of that parse prints, in the same
\* style, as the same text.
C18_PrintParsePrint ==
  DocumentPrinted =>
    /\ printed.back # NilNode => printed.back.err = NoErr
    /\ printed.again # NilNode =>
         /\ printed.again.err = NoErr
         /\ printed.again.out = printed.out

\* C19: Fprint returns an error only when a call of Write failed, whatever
\* the node: with a writer that never fails it returns nil.
C19_FprintFailsOnlyWithWriter ==
  (printed # NilNode /\ printed.err # NoErr) =>
    /\ printed.room >= 0
    /\ printed.err = ioErr

(***************************************************************************)
(* Advancing: a Lexer made by NewStringLexer is advanced once for every    *)
(* rune of the source, as a range over the source string counts them.      *)
(***************************************************************************)
\* l.advance(), called while the range over the source yields a rune
CallAdvance ==
  /\ lexer # NilNode
  /\ lexer.err = NoErr
  /\ advances < Len(source)
  /\ lexer' = Call("advance", <<lexer>>)
  /\ advances' = advances + 1
  /\ UNCHANGED <<source, toks, result, parses, printed, other>>

AdvInit == LexInit

AdvNext == CallNewStringLexer \/ CallAdvance

AdvSpec == AdvInit /\ [][AdvNext]_vars

\* The rune that a range over the source yields for its element c: an
\* invalid byte counts as U+FFFD.
RuneOf(c) == IF c = BadByte THEN RuneError ELSE c

\* C20: after k calls of advance the string-backed Lexer has lastIndex = k
\* and Rune() is rune k of the source, and eof is set exactly when the
\* Lexer was advanced past the last rune, never while runes remain.
C20_AdvanceVisitsEveryRune ==
  lexer # NilNode =>
    /\ lexer.lastIndex = advances
    /\ advances < Len(source) =>
         /\ Rune(lexer.scanner) = RuneOf(source[advances + 1])
         /\ ~lexer.eof
    /\ lexer.eof <=> advances >= Len(source)

(***************************************************************************)
(* The tokens of a node: the grammar rule of the node, as the sequence of  *)
(* its single tokens and of the nodes below it in the order of the source. *)
(***************************************************************************)
\* The tokens the lexer function returned to the parser, in order.
Toks == [j \in 1..Len(result.log) |-> result.log[j].t]

\* One token that is no node of its own: a punctuator or a keyword.
Tok == [kind |-> "tok"]

\* A node that a rule has filled in; the nil Value and the zero Name,
\* NamedType and SelectionSet of a struct are not.
Present(n) ==
  /\ n # NilNode
  /\ n.kind \in {"Name", "NamedType"} => n.Value # <<>>
  /\ n.kind = "SelectionSet" => n.Selections # <<>>

Brk(xs) == <<Tok>> \o xs \o <<Tok>>
Opt(xs) == IF xs = <<>> THEN <<>> ELSE Brk(xs)
IfPresent(n, items) == IF Present(n) THEN items ELSE <<>>

\* a|b|c
RECURSIVE Piped(_)
Piped(xs) ==
  IF Len(xs) <= 1 THEN xs ELSE <<Head(xs), Tok>> \o Piped(Tail(xs))

\* The rule of node n, whose first token is token i.
Layout(n, i) ==
  CASE n.kind = "Document" -> n.Definitions \o <<Tok>>
    [] n.kind = "OpDef" ->
         IF Toks[i].Kind = BraceL THEN <<n.SelectionSet>>
         ELSE <<Tok>> \o IfPresent(n.Name, <<n.Name>>) \o Opt(n.VarDefs)
              \o n.Directives \o <<n.SelectionSet>>
    [] n.kind = "FragmentDef" ->
         <<Tok, n.Name, Tok, n.TypeCondition>> \o n.Directives
         \o <<n.SelectionSet>>
    [] n.kind = "VarDef" ->
         <<n.Variable, Tok, n.RefType>>
         \o IfPresent(n.DefaultValue, <<Tok, n.DefaultValue>>)
    [] n.kind = "Variable" -> <<Tok, n.Name>>
    [] n.kind = "SelectionSet" -> Brk(n.Selections)
    [] n.kind = "Field" ->
         IfPresent(n.Alias, <<n.Alias, Tok>>) \o <<n.Name>>
         \o Opt(n.Arguments) \o n.Directives
         \o IfPresent(n.SelectionSet, <<n.SelectionSet>>)
    [] n.kind \in {"Argument", "ObjectField"} -> <<n.Name, Tok, n.Value>>
    [] n.kind = "FragmentSpread" -> <<Tok, n.Name>> \o n.Directives
    [] n.kind = "InlineFragment" ->
         <<Tok>> \o IfPresent(n.NamedType, <<Tok, n.NamedType>>)
         \o n.Directives \o <<n.SelectionSet>>
    [] n.kind = "List" -> Brk(n.Values)
    [] n.kind = "Object" -> Brk(n.Fields)
    [] n.kind = "Directive" -> <<Tok, n.Name>> \o Opt(n.Arguments)
    [] n.kind = "ListType" -> <<Tok, n.RefType, Tok>>
    [] n.kind = "NonNullType" -> <<n.RefType, Tok>>
    [] n.kind \in {"ObjTypeDef", "TypeExtDef"} ->
         (IF n.kind = "TypeExtDef" THEN <<Tok>> ELSE <<>>)
         \o <<Tok, n.Name>>
         \o (IF n.Interfaces = <<>> THEN <<>> ELSE <<Tok>> \o n.Interfaces)
         \o Brk(n.FieldDefs)
    [] n.kind = "FieldDef" ->
         <<n.Name>> \o Opt(n.Arguments) \o <<Tok, n.RefType>>
    [] n.kind = "InputValueDef" ->
         <<n.Name, Tok, n.RefType>>
         \o IfPresent(n.DefaultValue, <<Tok, n.DefaultValue>>)
    [] n.kind = "InterfaceTypeDef" -> <<Tok, n.Name>> \o Brk(n.FieldDefs)
    [] n.kind = "UnionTypeDef" -> <<Tok, n.Name, Tok>> \o Piped(n.NamedTypes)
    [] n.kind = "ScalarTypeDef" -> <<Tok, n.Name>>
    [] n.kind = "EnumTypeDef" -> <<Tok, n.Name>> \o Brk(n.EnumValueDefs)
    [] n.kind = "InputObjTypeDef" -> <<Tok, n.Name>> \o Brk(n.Fields)
    [] OTHER -> <<Tok>>

\* Node n and the nodes below it have the spans of their tokens, when the
\* first token of n is token i: [ok, next], next the token behind n.
RECURSIVE SpansOfTokens(_, _)
RECURSIVE SpansOfItems(_, _, _)
SpansOfTokens(n, i) ==
  IF i > Len(Toks) THEN [ok |-> FALSE, next |-> i]
  ELSE LET w == SpansOfItems(Layout(n, i), 1, i) IN
       [ok |-> /\ w.ok
               /\ w.next - 1 <= Len(Toks)
               /\ n.Start = Toks[i].Start
               /\ n.End = Toks[w.next - 1].End,
        next |-> w.next]

SpansOfItems(items, k, i) ==
  IF k > Len(items) THEN [ok |-> TRUE, next |-> i]
  ELSE IF items[k] = Tok THEN SpansOfItems(items, k + 1, i + 1)
  ELSE LET w == SpansOfTokens(items[k], i) IN
       IF w.ok THEN SpansOfItems(items, k + 1, w.next) ELSE w

\* C21: every node of a Document that ParseString or ParseReader returns
\* spans from the Start of the first token of its rule to the End of the
\* last token of its rule: a fragment starts at '...', a type extension at
\* extend, a field at its alias when it has one, and the Document ends at
\* the EOF token, the last token but the lookahead.
C21_SpansAreTokenSpans ==
  Succeeded =>
    LET w == SpansOfTokens(result.doc, 1) IN
    /\ w.ok
    /\ w.next = Len(Toks)
    /\ Toks[w.next - 1].Kind = EOF
    /\ result.doc.End = Toks[w.next - 1].Start

\* A Document with a field that has an alias and with a fragment.
C21_Witness ==
  /\ Succeeded
  /\ \E n \in Nodes(result.doc) :
       n.kind = "Field" /\ n.Alias.Value # <<>> /\ n.Start = n.Alias.Start
  /\ \E n \in Nodes(result.doc) : n.kind = "InlineFragment"
  /\ \E n \in Nodes(result.doc) : n.kind = "FragmentSpread"

\* A Document with a type extension.
C21_WitnessExtend ==
  /\ Succeeded
  /\ \E n \in Nodes(result.doc) : n.kind = "TypeExtDef"

\* The offset behind the integer part and the fraction of the number that
\* starts at offset 0 of the source: where an exponent marker may stand.
ExponentAt ==
  LET i0 == IF At0(0) = 45 THEN 1 ELSE 0
      i1 == IF At0(i0) = 48 THEN i0 + 1 ELSE AfterDigits(i0)
  IN IF At0(i1) = 46 THEN AfterDigits(i1 + 1) ELSE i1

\* A sign followed by the end of the input.
SignThenEnd == At0(0) = 45 /\ Len(source) = 1

\* A leading 0, after an optional sign, followed by a digit or by the end
\* of the input.
ZeroThenDigitOrEnd ==
  LET i0 == IF At0(0) = 45 THEN 1 ELSE 0 IN
  /\ At0(i0) = 48
  /\ IsDigitRune(At0(i0 + 1)) \/ Len(source) = i0 + 1

\* An integer part, an optional fraction and an exponent marker followed by
\* a rune that is neither a sign nor a digit.
MarkerThenOther ==
  LET i0 == IF At0(0) = 45 THEN 1 ELSE 0 IN
  /\ IsDigitRune(At0(i0))
  /\ ~ZeroThenDigitOrEnd
  /\ At0(ExponentAt) \in {69, 101}
  /\ ExponentAt + 1 < Len(source)
  /\ At0(ExponentAt + 1) \notin {43, 45, BadByte}
  /\ ~IsDigitRune(At0(ExponentAt + 1))

\* The offset of the rune, or of the end of the input, that breaks the
\* number in these three cases.
BreaksAt ==
  CASE SignThenEnd -> 1
    [] ZeroThenDigitOrEnd -> IF At0(0) = 45 THEN 2 ELSE 1
    [] MarkerThenOther -> ExponentAt + 1
    [] OTHER -> 0 - 1

\* C22: a number that starts the source fails with a SyntaxError at the
\* offset of the offending rune, or of the end of the input, when a sign is
\* followed by the end of the input, when a leading 0 is followed by a
\* digit or by the end of the input, and when an exponent marker is
\* followed by a rune that is neither a sign nor a digit.
C22_NumberErrorsAtCurrentOffset ==
  (Len(toks) >= 1 /\ BreaksAt >= 0)
  => /\ toks[1].err.type = "SyntaxError"
     /\ toks[1].err.Pos = BreaksAt

\* The offset of the first rune at or after offset i that is not one of the
\* ignored BOM, tab, space, LF, CR and comma.
RECURSIVE SkipBlanks(_)
SkipBlanks(i) ==
  IF At0(i) \in {BOM, TAB, SPACE, LF, CR, COMMA} THEN SkipBlanks(i + 1) ELSE i

IsNameRune(r) ==
  r = 95 \/ IsDigitRune(r) \/ (r >= 65 /\ r <= 90) \/ (r >= 97 /\ r <= 122)

\* The offset after the run of '_', letters and digits that starts at i.
RECURSIVE AfterName(_)
AfterName(i) == IF IsNameRune(At0(i)) THEN AfterName(i + 1) ELSE i

PunctuatorRunes == {33, 36, 40, 41, 58, 61, 64, 91, 93, 123, 124, 125}

\* Call j of Lex returned a punctuator, a spread or a name.
PlainToken(j) ==
  /\ toks[j].err = NoErr
  /\ toks[j].t.Kind \in
       {runePunctuators(r) : r \in PunctuatorRunes} \cup {Spread, Name}

\* The offset at which call j of Lex finds its token: behind the token of
\* the call before and the ignored characters that follow it.
StartOf(j) ==
  IF j = 1 THEN SkipBlanks(0)
  ELSE SkipBlanks(IF toks[j - 1].t.Kind = Name THEN toks[j - 1].t.End + 1
                  ELSE toks[j - 1].t.End)

\* What call j of Lex is to return when its token starts with rune r at s.
LexedAsClaimed(j, s, r) ==
  CASE r \in PunctuatorRunes ->
         /\ toks[j].err = NoErr
         /\ toks[j].t = [Kind |-> runePunctuators(r), Start |-> s,
                         End |-> s + 1, Value |-> <<r>>]
    [] r = 46 ->
         IF At0(s + 1) = 46 /\ At0(s + 2) = 46
         THEN /\ toks[j].err = NoErr
              /\ toks[j].t = [Kind |-> Spread, Start |-> s, End |-> s + 3,
                              Value |-> <<46, 46, 46>>]
         ELSE /\ toks[j].err.type = "SyntaxError"
              /\ toks[j].err.Pos = s
    [] IsNameRune(r) /\ ~IsDigitRune(r) ->
         /\ toks[j].err = NoErr
         /\ toks[j].t = [Kind |-> Name, Start |-> s,
                         End |-> s + (AfterName(s) - s) - 1,
                         Value |-> SubSeq(source, s + 1, AfterName(s))]
    [] OTHER -> TRUE

\* C23: Lex returns for a punctuator a token of the mapped Kind with the
\* rune as Value and End = Start + 1, for three dots a Spread token "..."
\* with End = Start + 3, for a name a Name token whose Value is the maximal
\* run of '_', letters and digits and whose End = Start + length - 1, and
\* for one or two dots without a third a SyntaxError at the first dot.
C23_PunctuatorsSpreadNames ==
  \A j \in 1..Len(toks) :
    (j = 1 \/ PlainToken(j - 1)) =>
      LET s == StartOf(j) IN
      s < Len(source) => LexedAsClaimed(j, s, At0(s))

(***************************************************************************)
(* Ignored characters: when the Lexer has lexed the source up to the EOF   *)
(* token, a second Lexer of the same kind is made on the source with a run *)
(* of ignored characters inserted in front of one of the tokens, and lexes *)
(* that text.                                                              *)
(***************************************************************************)
\* The token texts a, {, ..., 1, 1.5, "s" and the space.
IgnPieces ==
  {<<97>>, <<123>>, <<46, 46, 46>>, <<49>>, <<49, 46, 53>>, <<34, 115, 34>>,
   <<32>>}

\* One or two of them.
IgnSources == {a \o b : a \in IgnPieces \cup {<<>>}, b \in IgnPieces}

\* The runs that are inserted: BOM, tab, space, LF, CR, comma, ", ", and the
\* comments "#x" LF, "# " CR and "#" LF.
IgnRuns ==
  {<<BOM>>, <<TAB>>, <<SPACE>>, <<LF>>, <<CR>>, <<COMMA>>, <<COMMA, SPACE>>,
   <<35, 120, LF>>, <<35, SPACE, CR>>, <<35, LF>>}

\* The text src with the run inserted at the 0-based offset k.
Inserted(src, k, run) ==
  SubSeq(src, 1, k) \o run \o SubSeq(src, k + 1, Len(src))

\* A Lexer of the kind of l on the text src.
NewLexerLike(l, src) ==
  IF l.scanner.impl = "string" THEN Call("NewStringLexer", <<src>>).l
  ELSE Call("NewReaderLexer", <<src, 0 - 1>>).l

\* The Lexer has returned its tokens without an error, the EOF token last.
LexedToEOF ==
  /\ lexer # NilNode
  /\ Len(toks) >= 1
  /\ toks[Len(toks)].t.Kind = EOF
  /\ \A j \in 1..Len(toks) :
       toks[j].err = NoErr /\ (j < Len(toks) => toks[j].t.Kind # EOF)

\* l2, err := NewStringLexer(inserted), or NewReaderLexer: at is the token
\* in front of which the run stands, base the tokens of the source.
CallNewOther ==
  /\ LexedToEOF
  /\ other = NilNode
  /\ \E at \in 1..Len(toks), run \in IgnRuns :
       LET src == Inserted(source, toks[at].t.Start, run) IN
       other' = [source |-> src, at |-> at, run |-> run, base |-> toks,
                 lexer |-> NewLexerLike(lexer, src), toks |-> <<>>]
  /\ UNCHANGED <<source, lexer, toks, result, parses, printed, advances>>

\* var t Token; err := l2.Lex(&t)
CallLexOther ==
  /\ other # NilNode
  /\ Len(other.toks) < Len(other.base)
  /\ LET x == Call("Lex", <<other.lexer, Token0>>) IN
     other' = [other EXCEPT !.lexer = x.l,
                            !.toks = Append(@, [t |-> x.t, err |-> x.err])]
  /\ UNCHANGED <<source, lexer, toks, result, parses, printed, advances>>

IgnInit ==
  /\ source \in IgnSources
  /\ lexer = NilNode
  /\ toks = <<>>
  /\ result = NilNode
  /\ parses = <<>>
  /\ printed = NilNode
  /\ advances = 0
  /\ other = NilNode

IgnNext ==
  \/ CallNewStringLexer
  \/ CallNewReaderLexer
  \/ CallLex
  \/ CallNewOther
  \/ CallLexOther

IgnSpec == IgnInit /\ [][IgnNext]_vars

\* The token t moved by n runes.
Shifted(t, n) == [t EXCEPT !.Start = @ + n, !.End = @ + n]

\* C24: a run of ignored characters (BOM, tab, space, LF, CR, comma, a
\* comment up to its line terminator) inserted in front of a token, or
\* behind the last one, leaves the Kinds and Values of the tokens as they
\* were and moves the Start and End of the tokens behind it by the number
\* of runes inserted.
C24_IgnoredRunsOnlyShift ==
  other # NilNode =>
    \A j \in 1..Len(other.toks) :
      /\ other.toks[j].err = NoErr
      /\ other.toks[j].t =
           Shifted(other.base[j].t,
                   IF j >= other.at THEN Len(other.run) ELSE 0)

\* parseField has been called on a fresh parser; Lexed(j) says that the
\* lexer function returned a token at its call j.
FieldCalled == result # NilNode /\ result.via = "parseField"
Lexed(j) == j <= Len(result.log) /\ result.log[j].err = NoErr
LexedKind(j) == result.log[j].t.Kind

\* C25: in a field the first Name is the alias exactly when a ':' follows,
\* and the Name behind the ':' is then the field name; without the ':' the
\* first Name is the field name and the alias is empty; a ':' that no Name
\* follows is a SyntaxError at the token behind it, found with that one
\* token of lookahead.
C25_AliasByColon ==
  (FieldCalled /\ Lexed(1) /\ Lexed(2) /\ LexedKind(1) = Name) =>
    /\ result.err = NoErr =>
         /\ result.doc.kind = "Field"
         /\ result.doc.Alias.Value # <<>> <=> LexedKind(2) = Colon
         /\ LexedKind(2) = Colon =>
              /\ result.doc.Alias =
                   [kind |-> "Name", Start |-> Toks[1].Start,
                    End |-> Toks[1].End, Value |-> Toks[1].Value]
              /\ Lexed(3) /\ LexedKind(3) = Name
              /\ result.doc.Name.Value = Toks[3].Value
              /\ result.doc.Name.Start = Toks[3].Start
         /\ LexedKind(2) # Colon =>
              /\ result.doc.Alias = Name0
              /\ result.doc.Name.Value = Toks[1].Value
              /\ result.doc.Name.Start = Toks[1].Start
    /\ (LexedKind(2) = Colon /\ Lexed(3) /\ LexedKind(3) # Name) =>
         /\ result.doc = NilNode
         /\ result.err.type = "SyntaxError"
         /\ result.err.Pos = Toks[3].Start
         /\ Len(result.log) = 3
    /\ (LexedKind(2) \notin {Colon, ParenL, At, BraceL}) =>
         /\ result.err = NoErr
         /\ Len(result.log) = 2

\* A field with an alias, arguments, a directive and a selection set.
C25_Witness ==
  /\ FieldCalled /\ result.err = NoErr
  /\ result.doc.Alias.Value = <<97>>
  /\ result.doc.Name.Value = <<98>>
  /\ result.doc.Arguments # <<>>

\* A ':' that no Name follows.
C25_WitnessNoName ==
  /\ FieldCalled /\ Lexed(1) /\ Lexed(2) /\ Lexed(3)
  /\ LexedKind(1) = Name /\ LexedKind(2) = Colon /\ LexedKind(3) # Name
  /\ result.err.type = "SyntaxError"

(***************************************************************************)
(* The parser's primitives one call at a time.  result is the parser after *)
(* the call (p), with the method called (via), its argument (arg), the     *)
(* parser before the call (before), what the method returned (err, match,  *)
(* v), and the number of tokens consumed so far (consumed): a token is     *)
(* consumed by a call of advance, and by skip, expect or expectKeyword     *)
(* when the current token is the one asked for.                            *)
(***************************************************************************)
MaxSteps == 2

\* a ?   a "   on a   fragment on   {a}   (empty)
StepSources ==
  FieldSources \cup
  {<<97, 32, 63>>, <<97, 32, 34>>, <<111, 110, 32, 97>>,
   <<102, 114, 97, 103, 109, 101, 110, 116, 32, 111, 110>>,
   <<123, 97, 125>>, <<63>>, <<>>}

Kinds ==
  {EOF, Bang, Dollar, ParenL, ParenR, Spread, Colon, Equals, At, BracketL,
   BracketR, BraceL, Pipe, BraceR, Name, IntKind, Float, String}

Keywords == {Lit("on"), Lit("fragment"), <<97>>}

Stepping ==
  /\ result # NilNode /\ result.via \in {"newParser", "advance", "skip", "expect", "expectKeyword"}
  /\ result.p # NilParser

\* The lexer function has returned no error so far.
CanStep ==
  /\ Stepping
  /\ result.steps < MaxSteps
  /\ \A j \in 1..Len(result.p.log) : result.p.log[j].err = NoErr

CallNewParser ==
  /\ lexer = NilNode /\ result = NilNode
  /\ LET x == Call("newStringParser", <<source>>) IN
     result' = [via |-> "newParser", arg |-> "", before |-> NilParser,
                p |-> x.p, err |-> x.err, match |-> FALSE, v |-> NilTok,
                consumed |-> 0, steps |-> 0]
  /\ UNCHANGED <<source, lexer, toks, parses, printed, advances, other>>

CallParserAdvance ==
  /\ CanStep
  /\ LET x == Call("parser_advance", <<result.p>>) IN
     result' = [via |-> "advance", arg |-> "", before |-> result.p,
                p |-> x.p, err |-> x.err, match |-> FALSE, v |-> NilTok,
                consumed |-> result.consumed + 1, steps |-> result.steps + 1]
  /\ UNCHANGED <<source, lexer, toks, parses, printed, advances, other>>

CallSkip ==
  /\ CanStep
  /\ \E k \in Kinds :
       LET x == Call("skip", <<result.p, k>>) IN
       result' = [via |-> "skip", arg |-> k, before |-> result.p,
                  p |-> x.p, err |-> x.err, match |-> x.match, v |-> NilTok,
                  consumed |-> result.consumed +
                               IF result.p.last.Kind = k THEN 1 ELSE 0,
                  steps |-> result.steps + 1]
  /\ UNCHANGED <<source, lexer, toks, parses, printed, advances, other>>

CallExpect ==
  /\ CanStep
  /\ \E k \in Kinds :
       LET x == Call("expect", <<result.p, k>>) IN
       result' = [via |-> "expect", arg |-> k, before |-> result.p,
                  p |-> x.p, err |-> x.err, match |-> FALSE, v |-> x.v,
                  consumed |-> result.consumed +
                               IF result.p.last.Kind = k THEN 1 ELSE 0,
                  steps |-> result.steps + 1]
  /\ UNCHANGED <<source, lexer, toks, parses, printed, advances, other>>

CallExpectKeyword ==
  /\ CanStep
  /\ \E value \in Keywords :
       LET x == Call("expectKeyword", <<result.p, value>>) IN
       result' = [via |-> "expectKeyword", arg |-> value,
                  before |-> result.p,
                  p |-> x.p, err |-> x.err, match |-> FALSE, v |-> x.v,
                  consumed |-> result.consumed +
                               IF /\ result.p.last.Kind = Name
                                  /\ result.p.last.Value = value
                               THEN 1 ELSE 0,
                  steps |-> result.steps + 1]
  /\ UNCHANGED <<source, lexer, toks, parses, printed, advances, other>>

StepInit ==
  /\ source \in StepSources
  /\ lexer = NilNode
  /\ toks = <<>>
  /\ result = NilNode
  /\ parses = <<>>
  /\ printed = NilNode
  /\ advances = 0
  /\ other = NilNode

StepNext ==
  \/ CallNewParser
  \/ CallParserAdvance
  \/ CallSkip
  \/ CallExpect
  \/ CallExpectKeyword

StepSpec == StepInit /\ [][StepNext]_vars

\* The current token of the parser before the call is the one asked for.
Asked ==
  IF result.via = "expectKeyword"
  THEN result.before.last.Kind = Name /\ result.before.last.Value = result.arg
  ELSE result.before.last.Kind = result.arg

Matching ==
  Stepping /\ result.via \in {"skip", "expect", "expectKeyword"}

\* C26: when the current token is not the one asked for, skip, expect and
\* expectKeyword leave the parser as it was and call the lexer function not
\* at all: skip returns false and no error, expect and expectKeyword a
\* SyntaxError at the Start of the current token; when it is the one asked
\* for, each calls the lexer function once and returns its error as it is.
C26_MismatchLeavesParser ==
  Matching =>
    LET b == result.before
        a == result.p
    IN /\ ~Asked =>
            /\ a = b
            /\ a.last = b.last /\ a.prevEnd = b.prevEnd
            /\ Len(a.log) = Len(b.log)
            /\ result.via = "skip" =>
                 result.match = FALSE /\ result.err = NoErr
            /\ result.via # "skip" =>
                 /\ result.err.type = "SyntaxError"
                 /\ result.err.Pos = b.last.Start
                 /\ result.v = NilTok
       /\ Asked =>
            /\ Len(a.log) = Len(b.log) + 1
            /\ SubSeq(a.log, 1, Len(b.log)) = b.log
            /\ result.err = a.log[Len(a.log)].err
            /\ a.last = a.log[Len(a.log)].t
            /\ a.prevEnd = b.last.End
            /\ result.via = "skip" => result.match = TRUE
            /\ (result.via # "skip" /\ result.err = NoErr) =>
                 result.v = b.last
            /\ (result.via # "skip" /\ result.err # NoErr) =>
                 result.v = NilTok

\* skip of a kind that the current token, the second of the text, is not.
C26_Witness ==
  /\ Matching /\ result.via = "skip" /\ ~Asked
  /\ result.before.prevEnd > 0
  /\ result.before.last.Kind = Name

\* expectKeyword of the current token, with a lexer error behind it.
C26_WitnessLexerError ==
  /\ Matching /\ Asked /\ result.via = "expectKeyword"
  /\ result.err.type = "SyntaxError"

\* C27: the parser holds one token of lookahead: the lexer function has been
\* called once more than tokens have been consumed, the current token is the
\* one its last call returned, the tokens are those the lexer returns in its
\* order, and prevEnd is 0 until a token has been consumed and afterwards
\* the End of the token consumed last.
C27_OneLookahead ==
  Stepping =>
    LET q == result.p
        n == result.consumed
    IN /\ Len(q.log) = n + 1
       /\ q.last = q.log[n + 1].t
       /\ q.prevEnd = IF n = 0 THEN 0 ELSE q.log[n].t.End
       /\ q.log = LexLog(NewStringLexer(source).l, n + 1)

\* Two tokens consumed, the second ending behind the first.
C27_Witness ==
  /\ Stepping /\ result.consumed = 2
  /\ result.p.prevEnd > result.before.prevEnd
  /\ result.before.prevEnd > 0
  /\ result.via = "advance"

Parsed == result # NilNode /\ result.via \in {"string", "reader"}

\* C28: ParseString and ParseReader return a Document or an error after
\* boundedly many steps: each call of the lexer function before the end of
\* the input returns a token that starts behind the one before, so the
\* lexer function is called at most twice more than the text has runes; and
\* each turn of a loop of the parser (document, any, many, directives,
\* implements list, union members) and each nested list type starts with
\* more tokens read than the turn before, so there are no more turns than
\* calls of the lexer function.
C28_EveryTurnConsumes ==
  Parsed =>
    LET log == result.log
        turns == result.turns
    IN /\ \/ result.err = NoErr /\ result.doc.kind = "Document"
          \/ result.err # NoErr /\ result.doc = NilNode
       /\ Len(log) <= Len(source) + 2
       /\ \A j \in 1..(Len(log) - 1) :
            /\ log[j].err = NoErr
            /\ (log[j].t.Kind # EOF /\ log[j + 1].err = NoErr) =>
                 log[j + 1].t.Start > log[j].t.Start
            /\ log[j].t.Kind = EOF =>
                 /\ log[j + 1].err = NoErr
                 /\ log[j + 1].t = log[j].t
                 /\ j + 1 = Len(log)
       /\ \A i \in 1..Len(turns) : turns[i] \in 1..Len(log)
       /\ \A i \in 1..(Len(turns) - 1) : turns[i] < turns[i + 1]
       /\ Len(turns) <= Len(log)

\* A parse that fails at the end of the input inside nested loops.
C28_Witness ==
  /\ Parsed /\ result.via = "string"
  /\ result.err # NoErr
  /\ LastCall.t.Kind = EOF
  /\ Len(result.turns) >= 3

\* A Document of two definitions: the lexer function is called once more
\* after it returned EOF.
C28_WitnessDocument ==
  /\ Parsed /\ result.err = NoErr
  /\ Len(result.doc.Definitions) = 2
  /\ Len(result.log) >= 2
  /\ result.log[Len(result.log) - 1].t.Kind = EOF
  /\ Len(result.turns) >= 5

\* The token of lexer call j is a String whose Value is the word w.
StringOf(j, w) ==
  Lexed(j) /\ LexedKind(j) = String /\ Toks[j].Value = Lit(w)

\* The call stopped at the token of lexer call j, with an error that names
\* the kind found there and not the keyword on.
RefusedAt(j) ==
  /\ result.doc = NilNode
  /\ result.err.type = "SyntaxError"
  /\ result.err.Pos = Toks[j].Start
  /\ result.err.msg # "UnexpectedOn"
  /\ Len(result.log) = j

\* C29: a String token whose Value is on or implements is not taken for
\* the keyword: behind '...', behind the keyword fragment and its name, and
\* behind the name of an object type definition it is refused as the
\* String token it is.
C29_KeywordsAreNames ==
  Called =>
    /\ (result.via = "parseFragment" /\ Lexed(1) /\ LexedKind(1) = Spread
        /\ StringOf(2, "on")) => RefusedAt(2)
    /\ (result.via \in {"parseFragmentDef", "parseDefinition"}
        /\ Lexed(1) /\ LexedKind(1) = Name /\ Toks[1].Value = Lit("fragment")
        /\ StringOf(2, "on")) => RefusedAt(2)
    /\ (result.via \in {"parseFragmentDef", "parseDefinition"}
        /\ Lexed(1) /\ LexedKind(1) = Name /\ Toks[1].Value = Lit("fragment")
        /\ Lexed(2) /\ LexedKind(2) = Name /\ Toks[2].Value # Lit("on")
        /\ StringOf(3, "on")) => RefusedAt(3)
    /\ (result.via \in {"parseObjTypeDef", "parseDefinition"}
        /\ Lexed(1) /\ LexedKind(1) = Name /\ Toks[1].Value = Lit("type")
        /\ Lexed(2) /\ LexedKind(2) = Name
        /\ StringOf(3, "implements")) => RefusedAt(3)

\* The last call of Lex returned an EOF token.
AtEOF ==
  /\ lexer # NilNode /\ toks # <<>>
  /\ toks[Len(toks)].err = NoErr
  /\ toks[Len(toks)].t.Kind = EOF

==============================================================================
